---- MODULE Spec2Model ----
(***************************************************************************)
(* Durable event storage of temporal-db: the write-ahead log (FileWAL, at  *)
(* the level of the bytes of its file), and the segmented journal (WAL ->  *)
(* segment manager -> in-memory indexes) with its segment directory.       *)
(*                                                                         *)
(* The specifications of the module:                                       *)
(*   SpecWAL        one FileWAL over one file: append, flush, replay,      *)
(*                  crash of the process, reopen.                          *)
(*   SpecWALDamage  one FileWAL: append, failing writes, flush, replay,    *)
(*                  and damage done to the file from outside.              *)
(*   SpecJournal    one SegmentedJournal over one directory and one WAL,   *)
(*                  the append handler taken step by step, and restart.    *)
(*   SpecSegment    one segment file at the level of its bytes: create,    *)
(*                  append, finalize, loss of the writer, damage, read.    *)
(*   SpecMemory     one InMemoryJournal: append and its queries.           *)
(*   SpecJournalFaults  the SegmentedJournal with failing segment writes   *)
(*                  and append_batch.                                      *)
(*   SpecDB         one TemporalDB shared by concurrent tasks.             *)
(*   SpecView       one InMemoryMaterializedView shared by tasks.          *)
(*   SpecTimeline   two Timeline values under append, append_many, merge.  *)
(*   SpecHeader     one SegmentHeader: serialize, deserialize.             *)
(*   SpecCrdt       two replicas of one LWWRegister: set, exchange, merge. *)
(***************************************************************************)
EXTENDS Integers, Sequences, FiniteSets, TLC

VARIABLES
    \* ---- FileWAL (src/storage/wal.rs) ----
    walFile,        \* the bytes of the WAL file as the OS holds them
    walSynced,      \* length of the prefix that sync_all has made durable
    walOpen,        \* whether a FileWAL handle (self.file) is open
    walHandle,      \* how self.file was opened (append mode or not) and its write position
    walRes,         \* the last operation and what it returned
    walLayout,      \* history: what each stretch of walFile is (record / torn / bad crc)
    walPending,     \* history: events appended with success since the last flush
    walDurable,     \* history: events appended with success before a completed flush
    walFaults,      \* history: count of crashes, failed writes and outside damage
    \* ---- SegmentedJournal (src/storage/segment_journal.rs) ----
    wal,            \* the journal's WAL: the records it holds, in order
    segment_manager,\* SegmentManager: active, next_segment_id, segments
    dir,            \* the segment directory: segment id -> file
    in_memory,      \* InMemoryJournal: timelines, events_by_type
    events_by_type, \* SegmentedJournal.events_by_type
    pc,             \* position inside SegmentedJournal::append
    cur,            \* the event of the append in progress
    jRes,           \* the last journal operation and what it returned
    sealed,         \* history: segment id -> the file as finalize left it, and its events
    hist,           \* history: counters, and the events the active writer accepted
    \* ---- one segment file (src/storage/segment_file.rs) ----
    segFile,        \* the bytes of the segment file
    segWriter,      \* the SegmentWriter on it, or NoWriter
    segRes,         \* the last operation on the segment and what it returned
    segHist,        \* history: accepted events, blocks written, loss of the writer, damage
    \* ---- one InMemoryJournal (src/storage/journal.rs) ----
    memJournal,     \* InMemoryJournal: timelines, events_by_type
    memRes,         \* the last operation on it and what it returned
    memLog,         \* history: the events appended with success, in order
    \* ---- one TemporalDB shared by tasks (src/db.rs) ----
    dbJournal,      \* the InMemoryJournal behind Arc<RwLock<..>>
    dbLock,         \* the journal's RwLock: the task holding it for writing, the readers
    dbCurrent,      \* current_state: entity id -> payload bytes
    dbTask,         \* each task's position in insert or in a query, and its event
    dbObs,          \* what the last query saw of the two indexes
    dbCount,        \* history: the number of inserts started
    \* ---- one InMemoryMaterializedView (src/storage/materialized_view.rs) ----
    mvState,        \* state: entity id -> payload bytes
    mvLock,         \* the RwLock around state: its writer, its readers
    mvTask,         \* each task's position in apply_event or get_current_raw
    mvRes,          \* what the last get_current_raw returned
    mvLog,          \* history: the events applied, in the order of their inserts
    \* ---- two Timeline values (src/core/timeline.rs) ----
    tlSelf,         \* the timeline the calls are made on
    tlOther,        \* the timeline handed to merge
    tlRes,          \* the last call made
    \* ---- one SegmentHeader and its bytes (src/storage/segment_file.rs) ----
    hdrIn,          \* the header handed to serialize
    hdrBytes,       \* what serialize returned, or <<>> before the call
    hdrOut,         \* what deserialize returned for hdrBytes
    \* ---- two replicas of one LWWRegister (src/crdt/types.rs) ----
    lwwA,           \* the register of replica a: value, timestamp
    lwwB,           \* the register of replica b
    lwwRound        \* the states the replicas sent each other, and who has merged

walVars == <<walFile, walSynced, walOpen, walHandle, walRes, walLayout, walPending, walDurable,
            walFaults>>
jVars == <<wal, segment_manager, dir, in_memory, events_by_type, pc, cur, jRes, sealed, hist>>
segVars == <<segFile, segWriter, segRes, segHist>>
memVars == <<memJournal, memRes, memLog>>
dbVars == <<dbJournal, dbLock, dbCurrent, dbTask, dbObs, dbCount>>
mvVars == <<mvState, mvLock, mvTask, mvRes, mvLog>>
tlVars == <<tlSelf, tlOther, tlRes>>
hdrVars == <<hdrIn, hdrBytes, hdrOut>>
lwwVars == <<lwwA, lwwB, lwwRound>>
vars == <<walVars, jVars, segVars, memVars, dbVars, mvVars, tlVars, hdrVars, lwwVars>>
\* what the steps of each component leave alone
notWal == <<jVars, segVars, memVars, dbVars, mvVars, tlVars, hdrVars, lwwVars>>
notJournal == <<walVars, segVars, memVars, dbVars, mvVars, tlVars, hdrVars, lwwVars>>
notSegment == <<walVars, jVars, memVars, dbVars, mvVars, tlVars, hdrVars, lwwVars>>
notMemory == <<walVars, jVars, segVars, dbVars, mvVars, tlVars, hdrVars, lwwVars>>
notDb == <<walVars, jVars, segVars, memVars, mvVars, tlVars, hdrVars, lwwVars>>
notView == <<walVars, jVars, segVars, memVars, dbVars, tlVars, hdrVars, lwwVars>>
notTimeline == <<walVars, jVars, segVars, memVars, dbVars, mvVars, hdrVars, lwwVars>>
notHeader == <<walVars, jVars, segVars, memVars, dbVars, mvVars, tlVars, lwwVars>>
notCrdt == <<walVars, jVars, segVars, memVars, dbVars, mvVars, tlVars, hdrVars>>

----------------------------------------------------------------------------
(* Bounds of the model *)

\* appends (successful or not) to the FileWAL in one behaviour
MaxWalAppends == 3
\* crashes of the process holding the FileWAL in one behaviour
MaxWalCrashes == 1
\* calls of SegmentedJournal::append in one behaviour
MaxJournalCalls == 4
\* journal instances constructed after the first one in one behaviour
MaxJournalRestarts == 1
\* failed writes plus outside damage to the WAL file in one behaviour
MaxWalDamage == 1
\* calls of FileWAL::clear in one behaviour
MaxWalClears == 1
\* calls of SegmentWriter::append (accepted or not) on the segment file in one behaviour
MaxSegmentAppends == 4
\* calls of InMemoryJournal::append in one behaviour
MaxMemoryAppends == 4
\* failures of a segment file operation (flush_buffer, finalize) in one behaviour
MaxSegmentFaults == 2
\* calls of TemporalDB::insert in one behaviour
MaxDbInserts == 3
\* tasks sharing the TemporalDB
MaxDbTasks == 3
\* calls of MaterializedView::apply_event in one behaviour
MaxViewApplies == 3
\* tasks sharing the materialized view
MaxViewTasks == 2
\* events held by the two timelines together when an append is still made
MaxTimelineEvents == 4

----------------------------------------------------------------------------
(* Bytes, little-endian words and CRC-32 (crc32fast::Hasher) *)

Byte == 0..255

RECURSIVE XorBits(_, _, _)
XorBits(a, b, n) ==
    IF n = 0 THEN 0
    ELSE ((a + b) % 2) + 2 * XorBits(a \div 2, b \div 2, n - 1)

XorNibble == [a \in 0..15, b \in 0..15 |-> XorBits(a, b, 4)]

Xor8(a, b) == 16 * XorNibble[a \div 16, b \div 16] + XorNibble[a % 16, b % 16]

\* a 32-bit word is kept as its 4 little-endian bytes (TLC's integers are 32-bit signed)
Xor32(x, y) == <<Xor8(x[1], y[1]), Xor8(x[2], y[2]), Xor8(x[3], y[3]), Xor8(x[4], y[4])>>

Shr1(x) ==
    << (x[1] \div 2) + 128 * (x[2] % 2),
       (x[2] \div 2) + 128 * (x[3] % 2),
       (x[3] \div 2) + 128 * (x[4] % 2),
       x[4] \div 2 >>

\* the reflected CRC-32 polynomial 0xEDB88320
CrcPoly == <<32, 131, 184, 237>>

RECURSIVE CrcShift(_, _)
CrcShift(x, n) ==
    IF n = 0 THEN x
    ELSE CrcShift(IF x[1] % 2 = 1 THEN Xor32(Shr1(x), CrcPoly) ELSE Shr1(x), n - 1)

CrcTable == [i \in Byte |-> CrcShift(<<i, 0, 0, 0>>, 8)]

\* one byte into the running CRC
CrcStep(state, byte) ==
    Xor32(CrcTable[Xor8(state[1], byte)], <<state[2], state[3], state[4], 0>>)

RECURSIVE CrcRange(_, _, _, _)
\* bytes[lo..hi] into the running CRC, in order; the halves are folded one after
\* the other, the CRC after the left half being computed before the right half starts
CrcRange(state, bytes, lo, hi) ==
    IF lo > hi THEN state
    ELSE IF lo = hi THEN CHOOSE out \in {CrcStep(state, bytes[lo])} : TRUE
    ELSE LET mid == (lo + hi) \div 2
         IN  CHOOSE out \in {CrcRange(left, bytes, mid + 1, hi) :
                                left \in {CrcRange(state, bytes, lo, mid)}} : TRUE

\* Hasher::update(bytes) on the running CRC
CrcUpdate(state, bytes, i) == CrcRange(state, bytes, i, Len(bytes))

\* Hasher::new(); update(bytes); finalize(), as crc.to_le_bytes()
Crc32(bytes) == Xor32(CrcUpdate(<<255, 255, 255, 255>>, bytes, 1), <<255, 255, 255, 255>>)

\* (n as u32).to_le_bytes(), for the lengths the model writes (all below 2^16)
U32LE(n) == <<n % 256, (n \div 256) % 256, 0, 0>>

\* u32::from_le_bytes as usize; a length of 2^16 or more exceeds every file of the
\* model, and is reported as TooLong instead of being computed
TooLong == 65536
FromU32LE(b) == IF b[3] # 0 \/ b[4] # 0 THEN TooLong ELSE b[1] + 256 * b[2]

----------------------------------------------------------------------------
(* Events and their bincode encoding *)

\* The i64 range of Timestamp, scaled to one byte
I64_MIN == -128
I64_MAX == 127

\* An event: identity, type, valid time, entity and payload bytes. Strings are one
\* byte (a code below 128: one ASCII character), scalars one byte (the valid time
\* in two's complement); the fields that
\* are constant in every event of the model (transaction time, the None options,
\* the empty tag list, the format tag) are left out of the encoding.
NewEvent(id, ty, ts, ent, data) ==
    [id |-> id, event_type |-> ty, timestamp |-> ts, entity_id |-> ent, data |-> data]

\* bincode::serialize(event): the fields in declaration order, the payload
\* bytes behind their length
bincode_serialize(e) ==
    <<e.id, e.event_type, e.timestamp % 256, e.entity_id, Len(e.data)>> \o e.data

\* bincode::deserialize(buf): fails when the buffer ends early or a string is not
\* valid UTF-8; trailing bytes are allowed
bincode_deserialize(buf) ==
    IF Len(buf) < 5 THEN [ok |-> FALSE]
    ELSE IF buf[2] >= 128 \/ buf[4] >= 128 THEN [ok |-> FALSE]
    ELSE IF Len(buf) < 5 + buf[5] THEN [ok |-> FALSE]
    ELSE [ok |-> TRUE,
          event |-> NewEvent(buf[1], buf[2], IF buf[3] >= 128 THEN buf[3] - 256 ELSE buf[3],
                             buf[4], SubSeq(buf, 6, 5 + buf[5]))]

----------------------------------------------------------------------------
(* FileWAL: record format and replay *)

\* the events offered to the WAL: different payload lengths, hence record lengths
WalEvents ==
    { NewEvent(1, 1, 1, 1, <<>>),
      NewEvent(2, 2, 2, 2, <<7>>) }

\* write_record with the length written big-endian (to_be_bytes)
write_record_lenBigEndian(event) ==
    LET payload == bincode_serialize(event)
    IN  Crc32(payload) \o <<0, 0, (Len(payload) \div 256) % 256, Len(payload) % 256>>
                       \o payload

\* write_record: [crc32][len][payload]
write_record(event) ==
    LET payload == bincode_serialize(event)
    IN  Crc32(payload) \o U32LE(Len(payload)) \o payload

\* read_next_record reporting a short payload as corruption
read_next_record_shortIsError(file, pos) ==
    LET remaining == Len(file) - pos
    IN  IF remaining < 8 THEN [kind |-> "none"]
        ELSE
          LET crc == SubSeq(file, pos + 1, pos + 4)
              len == FromU32LE(SubSeq(file, pos + 5, pos + 8))
          IN  IF remaining - 8 < len THEN [kind |-> "err", err |-> "Storage"]
              ELSE
                LET buf == SubSeq(file, pos + 9, pos + 8 + len)
                    dec == bincode_deserialize(buf)
                IN  IF Crc32(buf) # crc THEN [kind |-> "err", err |-> "Storage"]
                    ELSE IF ~dec.ok THEN [kind |-> "err", err |-> "Serialization"]
                    ELSE [kind |-> "some", event |-> dec.event, pos |-> pos + 8 + len]

\* read_next_record without the comparison of the stored and the actual CRC
read_next_record_noCrcCheck(file, pos) ==
    LET remaining == Len(file) - pos
    IN  IF remaining < 8 THEN [kind |-> "none"]
        ELSE
          LET len == FromU32LE(SubSeq(file, pos + 5, pos + 8))
          IN  IF remaining - 8 < len THEN [kind |-> "none"]
              ELSE
                LET buf == SubSeq(file, pos + 9, pos + 8 + len)
                    dec == bincode_deserialize(buf)
                IN  IF ~dec.ok THEN [kind |-> "err", err |-> "Serialization"]
                    ELSE [kind |-> "some", event |-> dec.event, pos |-> pos + 8 + len]

\* read_next_record on the file from byte offset pos (bytes already consumed)
read_next_record(file, pos) ==
    LET remaining == Len(file) - pos
    IN  IF remaining < 8 THEN [kind |-> "none"]
        ELSE
          LET crc == SubSeq(file, pos + 1, pos + 4)
              len == FromU32LE(SubSeq(file, pos + 5, pos + 8))
          IN  IF remaining - 8 < len THEN [kind |-> "none"]
              ELSE
                LET buf == SubSeq(file, pos + 9, pos + 8 + len)
                    dec == bincode_deserialize(buf)
                IN  IF Crc32(buf) # crc THEN [kind |-> "err", err |-> "Storage"]
                    ELSE IF ~dec.ok THEN [kind |-> "err", err |-> "Serialization"]
                    ELSE [kind |-> "some", event |-> dec.event, pos |-> pos + 8 + len]

RECURSIVE replay_loop(_, _, _)
replay_loop(file, pos, events) ==
    LET r == read_next_record(file, pos)
    IN  IF r.kind = "some" THEN replay_loop(file, r.pos, Append(events, r.event))
        ELSE IF r.kind = "none" THEN [ok |-> TRUE, events |-> events]
        ELSE [ok |-> FALSE, err |-> r.err]

\* FileWAL::replay: a fresh read handle at offset 0, records until None or an error
replay(file) == replay_loop(file, 0, <<>>)

----------------------------------------------------------------------------
(* FileWAL: the state machine of one WAL file *)

RECURSIVE IsSubseq(_, _)
\* s occurs in t as a subsequence (same relative order)
IsSubseq(s, t) ==
    IF s = <<>> THEN TRUE
    ELSE IF t = <<>> THEN FALSE
    ELSE IF Head(s) = Head(t) THEN IsSubseq(Tail(s), Tail(t))
    ELSE IsSubseq(s, Tail(t))

RECURSIVE CutLayout(_, _)
\* the layout of the first k bytes of a file with the given layout
CutLayout(layout, k) ==
    IF layout = <<>> \/ k = 0 THEN <<>>
    ELSE LET h == Head(layout)
         IN  IF h.n <= k THEN <<h>> \o CutLayout(Tail(layout), k - h.n)
             ELSE << [kind |-> "torn", ev |-> h.ev, n |-> k] >>

\* the events of the intact records of a layout, in file order
LayoutEvents(layout) ==
    LET recs == SelectSeq(layout, LAMBDA x : x.kind = "rec")
    IN  [i \in 1..Len(recs) |-> recs[i].ev]

\* the byte offset at which element i of the layout starts
RECURSIVE LayoutOffset(_, _)
LayoutOffset(layout, i) ==
    IF i = 1 THEN 0 ELSE LayoutOffset(layout, i - 1) + layout[i - 1].n

\* the single-bit masks outside damage flips in a stored byte
CorruptMasks == {1, 128}

\* the state the journal's variables keep while the WAL is exercised alone
NoWriter == [open |-> FALSE]
NoEvent == [id |-> 0]
EmptyMap == <<>>

\* FileWAL::open on a path that does not exist yet, and SegmentedJournal::new on
\* an empty directory with an empty WAL
Init ==
    /\ walFile = <<>>
    /\ walSynced = 0
    /\ walOpen = TRUE
    /\ walHandle = [append |-> TRUE, pos |-> 0]
    /\ walRes = [op |-> "open", ok |-> TRUE]
    /\ walLayout = <<>>
    /\ walPending = <<>>
    /\ walDurable = <<>>
    /\ walFaults = [appends |-> 0, crashes |-> 0, damage |-> 0, clears |-> 0, dropped |-> 0]
    /\ wal = <<>>
    /\ segment_manager = [active |-> NoWriter, next_segment_id |-> 1, segments |-> <<>>]
    /\ dir = EmptyMap
    /\ in_memory = [timelines |-> EmptyMap, events_by_type |-> EmptyMap]
    /\ events_by_type = EmptyMap
    /\ pc = "idle"
    /\ cur = NoEvent
    /\ jRes = [op |-> "new", ok |-> TRUE]
    /\ sealed = EmptyMap
    /\ hist = [instance |-> 1, calls |-> 0, ok_appends |-> 0, ok_events |-> <<>>,
               flushed |-> FALSE, seg_faults |-> 0,
               active_events |-> <<>>, early_rotations |-> 0]
    /\ segFile = <<>>
    /\ segWriter = NoWriter
    /\ segRes = [op |-> "none", ok |-> TRUE]
    /\ segHist = [created |-> FALSE, appends |-> 0, events |-> <<>>, blocks |-> <<>>,
                  finalized |-> FALSE, lost |-> FALSE, damage |-> [kind |-> "none"]]
    /\ memJournal = [timelines |-> EmptyMap, events_by_type |-> EmptyMap]
    /\ memRes = [op |-> "new"]
    /\ memLog = <<>>
    /\ dbJournal = [timelines |-> EmptyMap, events_by_type |-> EmptyMap]
    /\ dbLock = [writer |-> 0, readers |-> {}]
    /\ dbCurrent = EmptyMap
    /\ dbTask = [t \in 1 .. MaxDbTasks |-> [pc |-> "idle"]]
    /\ dbObs = [seen |-> FALSE, timeline_ids |-> {}, type_ids |-> {}]
    /\ dbCount = 0
    /\ mvState = EmptyMap
    /\ mvLock = [writer |-> 0, readers |-> {}]
    /\ mvTask = [t \in 1 .. MaxViewTasks |-> [pc |-> "idle"]]
    /\ mvRes = [op |-> "new"]
    /\ mvLog = <<>>
    /\ tlSelf = [entity_id |-> 1, events |-> EmptyMap, version |-> 0]
    /\ tlOther = [entity_id |-> 1, events |-> EmptyMap, version |-> 0]
    /\ tlRes = [op |-> "new"]
    /\ hdrIn = [segment_id |-> 0, start_time |-> 0, end_time |-> 0, event_count |-> 0,
                compressed_size |-> 0, checksum |-> <<0, 0, 0, 0>>, flags |-> 0]
    /\ hdrBytes = <<>>
    /\ hdrOut = [op |-> "none"]
    /\ lwwA = [value |-> 0, timestamp |-> 0]
    /\ lwwB = [value |-> 0, timestamp |-> 0]
    /\ lwwRound = [active |-> FALSE,
                   a |-> [value |-> 0, timestamp |-> 0],
                   b |-> [value |-> 0, timestamp |-> 0],
                   merged_a |-> FALSE, merged_b |-> FALSE]

\* File::write_all through a handle: at the end of the file in append mode, else at
\* the handle's position, over what is there
WriteAt(file, handle, bytes) ==
    IF handle.append THEN file \o bytes
    ELSE SubSeq(file, 1, handle.pos) \o bytes
           \o SubSeq(file, handle.pos + Len(bytes) + 1, Len(file))

\* the handle after n bytes were written through it
Advance(handle, n) == IF handle.append THEN handle ELSE [handle EXCEPT !.pos = @ + n]

\* FileWAL::append, every write_all succeeding
FileWAL_append_ok(event) ==
    /\ walOpen
    /\ walFaults.appends < MaxWalAppends
    /\ walFile' = WriteAt(walFile, walHandle, write_record(event))
    /\ walHandle' = Advance(walHandle, Len(write_record(event)))
    /\ walLayout' = Append(walLayout,
                           [kind |-> "rec", ev |-> event, n |-> Len(write_record(event))])
    /\ walPending' = Append(walPending, event)
    /\ walFaults' = [walFaults EXCEPT !.appends = @ + 1]
    /\ walRes' = [op |-> "append", ok |-> TRUE]
    /\ UNCHANGED <<walSynced, walOpen, walDurable>>

\* FileWAL::append, a write_all call failing after the k bytes of the calls before
\* it reached the file (none, the crc, the crc and the length): the error is
\* returned, the bytes stay
FileWAL_append_err(event, k) ==
    /\ walOpen
    /\ walFaults.appends < MaxWalAppends
    /\ walFaults.damage < MaxWalDamage
    /\ k < Len(write_record(event))
    /\ walFile' = WriteAt(walFile, walHandle, SubSeq(write_record(event), 1, k))
    /\ walHandle' = Advance(walHandle, k)
    /\ walLayout' = IF k = 0 THEN walLayout
                    ELSE Append(walLayout, [kind |-> "torn", ev |-> event, n |-> k])
    /\ walFaults' = [walFaults EXCEPT !.appends = @ + 1, !.damage = @ + 1]
    /\ walRes' = [op |-> "append", ok |-> FALSE, err |-> "Io"]
    /\ UNCHANGED <<walSynced, walOpen, walPending, walDurable>>

FileWAL_append ==
    \E event \in WalEvents : FileWAL_append_ok(event)

FileWAL_append_fails ==
    \E event \in WalEvents, k \in {0, 4, 8} : FileWAL_append_err(event, k)

\* FileWAL::flush: file.flush() then sync_all()
FileWAL_flush ==
    /\ walOpen
    /\ walSynced' = Len(walFile)
    /\ walDurable' = walDurable \o walPending
    /\ walPending' = <<>>
    /\ walRes' = [op |-> "flush", ok |-> TRUE]
    /\ UNCHANGED <<walFile, walOpen, walHandle, walLayout, walFaults>>

\* FileWAL::replay
FileWAL_replay ==
    /\ walOpen
    /\ walRes' = [op |-> "replay"] @@ replay(walFile)
    /\ UNCHANGED <<walFile, walSynced, walOpen, walHandle, walLayout, walPending, walDurable,
                   walFaults>>

\* The process (or the machine) stops: the handle is gone, and of the bytes written
\* since the last sync_all any prefix may be what the file keeps.
WalCrash ==
    /\ walOpen
    /\ walFaults.crashes < MaxWalCrashes
    /\ \E k \in walSynced..Len(walFile) :
        /\ walFile' = SubSeq(walFile, 1, k)
        /\ walSynced' = k
        /\ walLayout' = CutLayout(walLayout, k)
    /\ walOpen' = FALSE
    /\ walPending' = <<>>
    /\ UNCHANGED walHandle
    /\ walFaults' = [walFaults EXCEPT !.crashes = @ + 1]
    /\ walRes' = [op |-> "crash", ok |-> TRUE]
    /\ UNCHANGED walDurable

\* FileWAL::open on the existing file: create(true).read(true).write(true).append(true)
FileWAL_open ==
    /\ ~walOpen
    /\ walOpen' = TRUE
    /\ walHandle' = [append |-> TRUE, pos |-> 0]
    /\ walRes' = [op |-> "open", ok |-> TRUE]
    /\ UNCHANGED <<walFile, walSynced, walLayout, walPending, walDurable, walFaults>>

\* Outside damage: one bit of one byte of a record's stored CRC is flipped on disk
WalCorruptCrc ==
    /\ walFaults.damage < MaxWalDamage
    /\ \E i \in 1..Len(walLayout), j \in 1..4, m \in CorruptMasks :
        /\ walLayout[i].kind = "rec"
        /\ LET at == LayoutOffset(walLayout, i) + j
           IN  walFile' = [walFile EXCEPT ![at] = Xor8(@, m)]
        /\ walLayout' = [walLayout EXCEPT ![i].kind = "bad"]
    /\ walFaults' = [walFaults EXCEPT !.damage = @ + 1]
    /\ walRes' = [op |-> "damage", ok |-> TRUE]
    /\ UNCHANGED <<walSynced, walOpen, walHandle, walPending, walDurable>>

\* FileWAL::clear leaving the file as it is (no truncate(true))
FileWAL_clear_noTruncate ==
    /\ walOpen
    /\ walFaults.clears < MaxWalClears
    /\ walHandle' = [append |-> FALSE, pos |-> 0]
    /\ walLayout' = <<>>
    /\ walPending' = <<>>
    /\ walDurable' = <<>>
    /\ walFaults' = [walFaults EXCEPT !.clears = @ + 1, !.dropped = Len(walLayout)]
    /\ walRes' = [op |-> "clear", ok |-> TRUE]
    /\ UNCHANGED <<walFile, walSynced, walOpen>>

\* FileWAL::clear: self.file is replaced by a handle opened with truncate(true) and
\* without append(true), at offset 0
FileWAL_clear ==
    /\ walOpen
    /\ walFaults.clears < MaxWalClears
    /\ walFile' = <<>>
    /\ walSynced' = 0
    /\ walHandle' = [append |-> FALSE, pos |-> 0]
    /\ walLayout' = <<>>
    /\ walPending' = <<>>
    /\ walDurable' = <<>>
    /\ walFaults' = [walFaults EXCEPT !.clears = @ + 1, !.dropped = Len(walLayout)]
    /\ walRes' = [op |-> "clear", ok |-> TRUE]
    /\ UNCHANGED walOpen

\* One FileWAL and the crashes of its process
WalNext ==
    \/ FileWAL_append /\ UNCHANGED notWal
    \/ FileWAL_flush /\ UNCHANGED notWal
    \/ FileWAL_replay /\ UNCHANGED notWal
    \/ WalCrash /\ UNCHANGED notWal
    \/ FileWAL_open /\ UNCHANGED notWal

SpecWAL == Init /\ [][WalNext]_vars

\* One FileWAL, failing writes and damage to the file, no crash
WalDamageNext ==
    \/ FileWAL_append /\ UNCHANGED notWal
    \/ FileWAL_append_fails /\ UNCHANGED notWal
    \/ FileWAL_flush /\ UNCHANGED notWal
    \/ FileWAL_replay /\ UNCHANGED notWal
    \/ WalCorruptCrc /\ UNCHANGED notWal
    \/ FileWAL_clear /\ UNCHANGED notWal

SpecWALDamage == Init /\ [][WalDamageNext]_vars

----------------------------------------------------------------------------
(* Claims about the FileWAL *)

\* C1: over append, flush, crash, reopen and further appends and flushes (no
\* failed write, no outside damage), every replay returns every event that was
\* appended before a completed flush, in append order.
C1_FlushedRecordsSurviveReplay ==
    (walRes.op = "replay" /\ walFaults.damage = 0)
        => IsSubseq(walDurable, IF walRes.ok THEN walRes.events ELSE <<>>)

\* C2: on a WAL that started empty and saw no crash and no failed write, after
\* appends E1..En and a flush, replay returns exactly E1..En.
C2_WalRoundTrip ==
    (walRes.op = "replay" /\ walFaults.crashes = 0 /\ walFaults.damage = 0
       /\ walPending = <<>>)
        => (walRes.ok /\ walRes.events = walDurable)

C2_Witness ==
    /\ walRes.op = "replay"
    /\ walFaults.crashes = 0 /\ walFaults.damage = 0
    /\ walPending = <<>>
    /\ Len(walDurable) = 3
    /\ walDurable[1] # walDurable[2]
    /\ walRes.ok /\ walRes.events = walDurable

\* the file is intact records followed by one torn record at its end
TornTailOnly(layout) ==
    /\ Len(layout) >= 1
    /\ layout[Len(layout)].kind = "torn"
    /\ \A i \in 1..(Len(layout) - 1) : layout[i].kind = "rec"

\* C9: when the file ends inside a record (short header or short payload) and
\* all records before it are intact, replay returns exactly those records, in
\* order, and no error.
C9_TornTailIsAbsent ==
    (walRes.op = "replay" /\ TornTailOnly(walLayout))
        => (walRes.ok /\ walRes.events = LayoutEvents(walLayout))

C9_Witness ==
    /\ walRes.op = "replay"
    /\ TornTailOnly(walLayout)
    /\ Len(walLayout) = 3
    /\ walLayout[3].n > 8
    /\ walRes.ok /\ Len(walRes.events) = 2

\* some complete record that is not the last one has a wrong stored CRC, and
\* everything before it is intact
BadInteriorRecord(layout) ==
    \E i \in 1..(Len(layout) - 1) :
        /\ layout[i].kind = "bad"
        /\ \A j \in 1..(i - 1) : layout[j].kind = "rec"

\* C10: when a complete non-tail record's stored CRC differs from the CRC of its
\* payload, replay fails with a storage error and returns no events.
C10_InteriorCorruptionFailsReplay ==
    (walRes.op = "replay" /\ BadInteriorRecord(walLayout))
        => (~walRes.ok /\ walRes.err = "Storage")

C10_Witness ==
    /\ walRes.op = "replay"
    /\ Len(walLayout) = 3
    /\ walLayout[1].kind = "rec" /\ walLayout[2].kind = "bad" /\ walLayout[3].kind = "rec"
    /\ ~walRes.ok /\ walRes.err = "Storage"

\* C11: right after clear returns, replay returns the empty sequence; after clear
\* and appends A1..Ak replay returns exactly A1..Ak, and no record written before
\* the clear.
C11_ClearThenReplay ==
    (walRes.op = "replay" /\ walFaults.clears > 0 /\ walFaults.damage = 0)
        => (walRes.ok /\ walRes.events = walDurable \o walPending)

C11_Witness ==
    /\ walRes.op = "replay" /\ walFaults.clears > 0 /\ walFaults.damage = 0
    /\ walFaults.dropped >= 1
    /\ walRes.ok /\ Len(walRes.events) >= 1
    /\ walRes.events = walDurable \o walPending

----------------------------------------------------------------------------
(* Segment files: header and writer (src/storage/segment_file.rs) *)

HEADER_SIZE == 64
MAGIC == <<84, 69, 77, 80, 48>>
SEGMENT_VERSION == 1
FLAG_COMPRESSED == 1
\* 1_000_000 in the source; scaled
MAX_EVENTS_PER_SEGMENT == 3
\* 100 * 1024 * 1024 in the source; scaled so that one block of two events with
\* two payload bytes each reaches it
MAX_SEGMENT_SIZE == 31
\* the writer's buffer threshold, 1000 in the source; scaled
BUFFER_FLUSH_EVENTS == 2

\* BufMut::put_u32 / put_u64 / put_i64: big-endian, for the values of the model
U32BE(n) == <<0, 0, (n \div 256) % 256, n % 256>>
U64BE(n) == <<0, 0, 0, 0, 0, 0, (n \div 256) % 256, n % 256>>
I64BE(t) == IF t >= 0 THEN U64BE(t) ELSE <<255, 255, 255, 255, 255, 255, 255, 256 + t>>
\* a 32-bit word kept as little-endian bytes, written big-endian
WordBE(w) == <<w[4], w[3], w[2], w[1]>>
ZeroWord == <<0, 0, 0, 0>>

SegmentHeader_new(segment_id, start_time, end_time) ==
    [segment_id |-> segment_id, start_time |-> start_time, end_time |-> end_time,
     event_count |-> 0, compressed_size |-> 0, checksum |-> ZeroWord, flags |-> 0]

SegmentHeader_serialize(h) ==
    MAGIC \o <<SEGMENT_VERSION>> \o <<0, 0>>
      \o U64BE(h.segment_id) \o I64BE(h.start_time) \o I64BE(h.end_time)
      \o U32BE(h.event_count) \o U32BE(h.compressed_size) \o WordBE(h.checksum)
      \o <<h.flags>> \o [i \in 1..19 |-> 0]

\* zstd::encode_all on the small inputs of the model: the frame magic, the content
\* size, and the content as one raw block
ZSTD_MAGIC == <<40, 181, 47, 253>>
zstd_encode_all(bytes) == ZSTD_MAGIC \o <<Len(bytes)>> \o bytes

\* SegmentWriter::create: the file is created or truncated, the initial header
\* written and synced
SegmentWriter_create(segment_id, start_time, end_time) ==
    LET header == SegmentHeader_new(segment_id, start_time, end_time)
    IN  [writer |-> [open |-> TRUE, header |-> header, event_buffer |-> <<>>,
                     current_offset |-> HEADER_SIZE,
                     checksum_hasher |-> <<255, 255, 255, 255>>],
         file |-> SegmentHeader_serialize(header)]

RECURSIVE SerializeEvents(_)
\* flush_buffer's loop: each event behind its little-endian u32 length
SerializeEvents(events) ==
    IF events = <<>> THEN <<>>
    ELSE LET event_bytes == bincode_serialize(Head(events))
         IN  U32LE(Len(event_bytes)) \o event_bytes \o SerializeEvents(Tail(events))

\* flush_buffer that advances the offset by the compressed bytes only, not by the
\* 4-byte length prefix
flush_buffer_offsetWithoutPrefix(w, file) ==
    IF w.event_buffer = <<>> THEN [writer |-> w, file |-> file]
    ELSE
      LET compressed == zstd_encode_all(SerializeEvents(w.event_buffer))
          offset == w.current_offset + Len(compressed)
      IN  [writer |->
             [w EXCEPT !.checksum_hasher = CrcUpdate(@, compressed, 1),
                       !.current_offset = offset,
                       !.header.flags = IF @ % 2 = 1 THEN @ ELSE @ + FLAG_COMPRESSED,
                       !.header.compressed_size = offset - HEADER_SIZE,
                       !.event_buffer = <<>>],
           file |-> file \o U32LE(Len(compressed)) \o compressed]

\* flush_buffer without the early return on an empty buffer
flush_buffer_noEmptyCheck(w, file) ==
    LET compressed == zstd_encode_all(SerializeEvents(w.event_buffer))
        offset == w.current_offset + 4 + Len(compressed)
    IN  [writer |->
           [w EXCEPT !.checksum_hasher = CrcUpdate(@, compressed, 1),
                     !.current_offset = offset,
                     !.header.flags = IF @ % 2 = 1 THEN @ ELSE @ + FLAG_COMPRESSED,
                     !.header.compressed_size = offset - HEADER_SIZE,
                     !.event_buffer = <<>>],
         file |-> file \o U32LE(Len(compressed)) \o compressed]

\* flush_buffer that forgets to clear the buffer
flush_buffer_keepsBuffer(w, file) ==
    IF w.event_buffer = <<>> THEN [writer |-> w, file |-> file]
    ELSE
      LET compressed == zstd_encode_all(SerializeEvents(w.event_buffer))
          offset == w.current_offset + 4 + Len(compressed)
      IN  [writer |->
             [w EXCEPT !.checksum_hasher = CrcUpdate(@, compressed, 1),
                       !.current_offset = offset,
                       !.header.flags = IF @ % 2 = 1 THEN @ ELSE @ + FLAG_COMPRESSED,
                       !.header.compressed_size = offset - HEADER_SIZE],
           file |-> file \o U32LE(Len(compressed)) \o compressed]

\* SegmentWriter::flush_buffer
flush_buffer(w, file) ==
    IF w.event_buffer = <<>> THEN [writer |-> w, file |-> file]
    ELSE
      LET compressed == zstd_encode_all(SerializeEvents(w.event_buffer))
          offset == w.current_offset + 4 + Len(compressed)
      IN  [writer |->
             [w EXCEPT !.checksum_hasher = CrcUpdate(@, compressed, 1),
                       !.current_offset = offset,
                       !.header.flags = IF @ % 2 = 1 THEN @ ELSE @ + FLAG_COMPRESSED,
                       !.header.compressed_size = offset - HEADER_SIZE,
                       !.event_buffer = <<>>],
           file |-> file \o U32LE(Len(compressed)) \o compressed]

\* append that takes the end of the range as inclusive
SegmentWriter_append_endInclusive(w, file, event) ==
    IF event.timestamp < w.header.start_time \/ event.timestamp > w.header.end_time
    THEN [ok |-> FALSE, err |-> "Temporal", writer |-> w, file |-> file]
    ELSE
      LET w1 == [w EXCEPT !.event_buffer = Append(@, event), !.header.event_count = @ + 1]
      IN  IF Len(w1.event_buffer) >= BUFFER_FLUSH_EVENTS
          THEN [ok |-> TRUE] @@ flush_buffer(w1, file)
          ELSE [ok |-> TRUE, writer |-> w1, file |-> file]

\* SegmentWriter::append
SegmentWriter_append(w, file, event) ==
    IF event.timestamp < w.header.start_time \/ event.timestamp >= w.header.end_time
    THEN [ok |-> FALSE, err |-> "Temporal", writer |-> w, file |-> file]
    ELSE
      LET w1 == [w EXCEPT !.event_buffer = Append(@, event), !.header.event_count = @ + 1]
      IN  IF Len(w1.event_buffer) >= BUFFER_FLUSH_EVENTS
          THEN [ok |-> TRUE] @@ flush_buffer(w1, file)
          ELSE [ok |-> TRUE, writer |-> w1, file |-> file]

\* SegmentWriter::finalize: the writer is consumed; the header is rewritten at offset 0
SegmentWriter_finalize(w, file) ==
    LET f == flush_buffer(w, file)
        header == [f.writer.header EXCEPT
                     !.checksum = Xor32(f.writer.checksum_hasher, <<255, 255, 255, 255>>)]
    IN  [header |-> header,
         file |-> SegmentHeader_serialize(header) \o SubSeq(f.file, HEADER_SIZE + 1, Len(f.file))]

\* where flush_buffer can fail: encoding (bincode or ZSTD, before anything changes)
\* or one of the two write_all calls (after the hasher took the block)
FlushFailures == {"encode", "write"}

\* how many bytes of a block of `total` bytes a failed write_all leaves in the file
KeptOnFailure(total) == {0, 4, total - 1}

\* SegmentWriter::flush_buffer returning an error at `stage`, `kept` bytes of the
\* block having reached the file: the buffer, the offset and the flags stay
flush_buffer_fails(w, file, stage, kept) ==
    LET compressed == zstd_encode_all(SerializeEvents(w.event_buffer))
        block == U32LE(Len(compressed)) \o compressed
    IN  IF stage = "encode"
        THEN [err |-> "Storage", writer |-> w, file |-> file]
        ELSE [err |-> "Io",
              writer |-> [w EXCEPT !.checksum_hasher = CrcUpdate(@, compressed, 1)],
              file |-> file \o SubSeq(block, 1, kept)]

\* SegmentWriter::append whose flush_buffer fails (the event is inside the bounds
\* and fills the buffer)
SegmentWriter_append_flush_fails(w, file, event, stage, kept) ==
    LET w1 == [w EXCEPT !.event_buffer = Append(@, event), !.header.event_count = @ + 1]
        f == flush_buffer_fails(w1, file, stage, kept)
    IN  [ok |-> FALSE, err |-> f.err, writer |-> f.writer, file |-> f.file]

\* SegmentWriter::finalize failing: in flush_buffer, or writing the header (nothing
\* or all of it written before the error); the writer is consumed either way
SegmentWriter_finalize_fails(w, file, stage, kept) ==
    IF w.event_buffer # <<>> /\ stage \in FlushFailures
    THEN [err |-> flush_buffer_fails(w, file, stage, kept).err,
          file |-> flush_buffer_fails(w, file, stage, kept).file]
    ELSE [err |-> "Io", file |-> flush_buffer(w, file).file]

----------------------------------------------------------------------------
(* Segment files: reader (src/storage/segment_file.rs) *)

\* Buf::get_u64 / get_u32 / get_i64: big-endian; every file of the model holds
\* values below 2^16 (the high bytes are zero), negative times down to I64_MIN
FromU64BE(b) == 256 * b[7] + b[8]
FromU32BE(b) == 256 * b[3] + b[4]
FromI64BE(b) == IF b[1] >= 128 THEN b[8] - 256 ELSE 256 * b[7] + b[8]

\* deserialize that does not skip the two reserved bytes
SegmentHeader_deserialize_noReserved(buf) ==
    IF Len(buf) < HEADER_SIZE THEN [ok |-> FALSE, err |-> "Storage"]
    ELSE IF SubSeq(buf, 1, 5) # MAGIC THEN [ok |-> FALSE, err |-> "Storage"]
    ELSE IF buf[6] # SEGMENT_VERSION THEN [ok |-> FALSE, err |-> "Storage"]
    ELSE [ok |-> TRUE,
          header |-> [segment_id |-> FromU64BE(SubSeq(buf, 7, 14)),
                      start_time |-> FromI64BE(SubSeq(buf, 15, 22)),
                      end_time |-> FromI64BE(SubSeq(buf, 23, 30)),
                      event_count |-> FromU32BE(SubSeq(buf, 31, 34)),
                      compressed_size |-> FromU32BE(SubSeq(buf, 35, 38)),
                      checksum |-> WordBE(SubSeq(buf, 39, 42)),
                      flags |-> buf[43]]]

\* SegmentHeader::deserialize
SegmentHeader_deserialize(buf) ==
    IF Len(buf) < HEADER_SIZE THEN [ok |-> FALSE, err |-> "Storage"]
    ELSE IF SubSeq(buf, 1, 5) # MAGIC THEN [ok |-> FALSE, err |-> "Storage"]
    ELSE IF buf[6] # SEGMENT_VERSION THEN [ok |-> FALSE, err |-> "Storage"]
    ELSE [ok |-> TRUE,
          header |-> [segment_id |-> FromU64BE(SubSeq(buf, 9, 16)),
                      start_time |-> FromI64BE(SubSeq(buf, 17, 24)),
                      end_time |-> FromI64BE(SubSeq(buf, 25, 32)),
                      event_count |-> FromU32BE(SubSeq(buf, 33, 36)),
                      compressed_size |-> FromU32BE(SubSeq(buf, 37, 40)),
                      checksum |-> WordBE(SubSeq(buf, 41, 44)),
                      flags |-> buf[45]]]

\* SegmentReader::open: read_exact of the header (a short file is an I/O error),
\* then deserialize
SegmentReader_open(file) ==
    IF Len(file) < HEADER_SIZE THEN [ok |-> FALSE, err |-> "Io"]
    ELSE SegmentHeader_deserialize(SubSeq(file, 1, HEADER_SIZE))

\* zstd::decode_all on a frame of zstd_encode_all: a wrong magic or a content
\* size that does not match the frame is a decoding error
zstd_decode_all(bytes) ==
    IF Len(bytes) < 5 THEN [ok |-> FALSE]
    ELSE IF SubSeq(bytes, 1, 4) # ZSTD_MAGIC THEN [ok |-> FALSE]
    ELSE IF bytes[5] # Len(bytes) - 5 THEN [ok |-> FALSE]
    ELSE [ok |-> TRUE, bytes |-> SubSeq(bytes, 6, Len(bytes))]

RECURSIVE ParseEvents(_, _, _)
\* read_events: the length-prefixed events of one decompressed block
ParseEvents(decompressed, offset, events) ==
    IF offset >= Len(decompressed) THEN [ok |-> TRUE, events |-> events]
    ELSE IF offset + 4 > Len(decompressed) THEN [ok |-> FALSE, err |-> "Storage"]
    ELSE
      LET event_len == FromU32LE(SubSeq(decompressed, offset + 1, offset + 4))
      IN  IF offset + 4 + event_len > Len(decompressed)
          THEN [ok |-> FALSE, err |-> "Storage"]
          ELSE
            LET dec == bincode_deserialize(
                           SubSeq(decompressed, offset + 5, offset + 4 + event_len))
            IN  IF ~dec.ok THEN [ok |-> FALSE, err |-> "Serialization"]
                ELSE ParseEvents(decompressed, offset + 4 + event_len,
                                 Append(events, dec.event))

RECURSIVE ReadBlocks(_, _, _, _)
\* read_events, the loop over compressed blocks from byte offset pos
ReadBlocks(file, pos, hasher, events) ==
    IF Len(file) - pos < 4 THEN [ok |-> TRUE, events |-> events, hasher |-> hasher]
    ELSE
      LET compressed_len == FromU32LE(SubSeq(file, pos + 1, pos + 4))
      IN  IF Len(file) - pos - 4 < compressed_len THEN [ok |-> FALSE, err |-> "Io"]
          ELSE
            LET compressed_buf == SubSeq(file, pos + 5, pos + 4 + compressed_len)
                decompressed == zstd_decode_all(compressed_buf)
            IN  IF ~decompressed.ok THEN [ok |-> FALSE, err |-> "Storage"]
                ELSE
                  LET parsed == ParseEvents(decompressed.bytes, 0, events)
                  IN  IF ~parsed.ok THEN parsed
                      ELSE ReadBlocks(file, pos + 4 + compressed_len,
                                      CrcUpdate(hasher, compressed_buf, 1), parsed.events)

RECURSIVE ReadLegacy(_, _, _)
\* read_events, the loop of the legacy (uncompressed) format
ReadLegacy(file, pos, events) ==
    IF Len(file) - pos < 4 THEN [ok |-> TRUE, events |-> events]
    ELSE
      LET event_len == FromU32LE(SubSeq(file, pos + 1, pos + 4))
      IN  IF Len(file) - pos - 4 < event_len THEN [ok |-> FALSE, err |-> "Io"]
          ELSE
            LET dec == bincode_deserialize(SubSeq(file, pos + 5, pos + 4 + event_len))
            IN  IF ~dec.ok THEN [ok |-> FALSE, err |-> "Serialization"]
                ELSE ReadLegacy(file, pos + 4 + event_len, Append(events, dec.event))

\* SegmentReader::read_events with the header that open read
read_events(header, file) ==
    IF header.flags % 2 = FLAG_COMPRESSED
    THEN LET r == ReadBlocks(file, HEADER_SIZE, <<255, 255, 255, 255>>, <<>>)
         IN  IF ~r.ok THEN r
             ELSE IF Xor32(r.hasher, <<255, 255, 255, 255>>) # header.checksum
             THEN [ok |-> FALSE, err |-> "Storage"]
             ELSE [ok |-> TRUE, events |-> r.events]
    ELSE ReadLegacy(file, HEADER_SIZE, <<>>)

\* SegmentReader::open followed by read_events
SegmentReader_read(file) ==
    LET o == SegmentReader_open(file)
    IN  IF ~o.ok THEN o
        ELSE [header |-> o.header] @@ read_events(o.header, file)

----------------------------------------------------------------------------
(* One segment file: writer, reader, and what can happen to the file between *)

\* the time ranges a segment is created with: a narrow one and the unbounded one
\* that SegmentManager::open_new_segment uses
SegmentRanges == {<<1, 3>>, <<I64_MIN + 1, I64_MAX>>}
\* the events appended: <<event_type, timestamp, entity_id, data>>
SegmentInputs == {<<1, 0, 1, <<>>>>, <<1, 1, 1, <<>>>>, <<2, 2, 2, <<7, 9>>>>, <<1, 3, 1, <<>>>>}
\* the bit flipped in a byte of the file
FlipMasks == {1, 128}

\* SegmentWriter::create
Segment_create ==
    /\ ~segHist.created
    /\ \E range \in SegmentRanges :
         LET c == SegmentWriter_create(1, range[1], range[2])
         IN  /\ segFile' = c.file
             /\ segWriter' = c.writer
    /\ segRes' = [op |-> "create", ok |-> TRUE]
    /\ segHist' = [segHist EXCEPT !.created = TRUE]

\* SegmentWriter::append
Segment_append ==
    /\ segWriter # NoWriter
    /\ segHist.appends < MaxSegmentAppends
    /\ \E in \in SegmentInputs :
         LET event == NewEvent(segHist.appends + 1, in[1], in[2], in[3], in[4])
             a == SegmentWriter_append(segWriter, segFile, event)
             wrote == Len(a.file) > Len(segFile)
         IN  /\ segFile' = a.file
             /\ segWriter' = a.writer
             /\ segRes' = IF a.ok THEN [op |-> "append", ok |-> TRUE, event |-> event]
                          ELSE [op |-> "append", ok |-> FALSE, err |-> a.err, event |-> event]
             /\ segHist' = [segHist EXCEPT
                   !.appends = @ + 1,
                   !.events = IF a.ok THEN Append(@, event) ELSE @,
                   !.blocks = IF wrote
                              THEN Append(@, [n |-> Len(a.file) - Len(segFile),
                                              events |-> Append(segWriter.event_buffer, event)])
                              ELSE @]

\* SegmentWriter::finalize
Segment_finalize ==
    /\ segWriter # NoWriter
    /\ LET f == SegmentWriter_finalize(segWriter, segFile)
       IN  /\ segFile' = f.file
           /\ segRes' = [op |-> "finalize", ok |-> TRUE, header |-> f.header]
           /\ segHist' = [segHist EXCEPT
                 !.finalized = TRUE,
                 !.blocks = IF Len(f.file) > Len(segFile)
                            THEN Append(@, [n |-> Len(f.file) - Len(segFile),
                                            events |-> segWriter.event_buffer])
                            ELSE @]
    /\ segWriter' = NoWriter

\* the writer is lost without finalize (the process dies, or the writer is dropped
\* after a failed flush): the header, synced by create, stays; of the blocks, written
\* without sync, any prefix stays
Segment_writer_lost ==
    /\ segWriter # NoWriter
    /\ \E keep \in HEADER_SIZE .. Len(segFile) :
         /\ segFile' = SubSeq(segFile, 1, keep)
         /\ segHist' = [segHist EXCEPT !.lost = TRUE]
    /\ segWriter' = NoWriter
    /\ segRes' = [op |-> "lost", ok |-> TRUE]

\* one bit of one byte of a block of the finalized file changes
Segment_flip_bit ==
    /\ segHist.finalized
    /\ segHist.damage.kind = "none"
    /\ \E at \in HEADER_SIZE + 1 .. Len(segFile), mask \in FlipMasks :
         /\ segFile' = [segFile EXCEPT ![at] = Xor8(@, mask)]
         /\ segHist' = [segHist EXCEPT !.damage = [kind |-> "flip", at |-> at]]
    /\ segRes' = [op |-> "damage", ok |-> TRUE]
    /\ UNCHANGED segWriter

\* the finalized file loses its end
Segment_truncate ==
    /\ segHist.finalized
    /\ segHist.damage.kind = "none"
    /\ \E keep \in HEADER_SIZE .. Len(segFile) - 1 :
         /\ segFile' = SubSeq(segFile, 1, keep)
         /\ segHist' = [segHist EXCEPT !.damage = [kind |-> "cut", keep |-> keep]]
    /\ segRes' = [op |-> "damage", ok |-> TRUE]
    /\ UNCHANGED segWriter

\* SegmentReader::open and read_events on the file as it is
Segment_read ==
    /\ segHist.created
    /\ segRes.op # "read"
    /\ segRes' = [op |-> "read"] @@ SegmentReader_read(segFile)
    /\ UNCHANGED <<segFile, segWriter, segHist>>

SegmentNext ==
    \/ Segment_create /\ UNCHANGED notSegment
    \/ Segment_append /\ UNCHANGED notSegment
    \/ Segment_finalize /\ UNCHANGED notSegment
    \/ Segment_writer_lost /\ UNCHANGED notSegment
    \/ Segment_flip_bit /\ UNCHANGED notSegment
    \/ Segment_truncate /\ UNCHANGED notSegment
    \/ Segment_read /\ UNCHANGED notSegment

SpecSegment == Init /\ [][SegmentNext]_vars

\* C12 (segment round-trip): events appended inside the bounds of a segment, then
\* finalize: SegmentReader::open followed by read_events returns exactly those
\* events, in order, and the header's event_count is their number.
C12_SegmentRoundTrip ==
    (segRes.op = "read" /\ segHist.finalized /\ segHist.damage.kind = "none")
        => /\ segRes.ok
           /\ segRes.events = segHist.events
           /\ segRes.header.event_count = Len(segHist.events)

\* three events in two blocks came back
C12_Witness ==
    /\ segRes.op = "read" /\ segHist.finalized /\ segHist.damage.kind = "none"
    /\ Len(segHist.events) = 3 /\ Len(segHist.blocks) = 2
    /\ segRes.ok /\ segRes.events = segHist.events

RECURSIVE BlockStream(_, _)
\* the compressed bytes of the blocks of a file from offset pos on, concatenated
\* (the length prefixes left out)
BlockStream(file, pos) ==
    IF Len(file) - pos < 4 THEN <<>>
    ELSE LET n == FromU32LE(SubSeq(file, pos + 1, pos + 4))
         IN  SubSeq(file, pos + 5, pos + 4 + n) \o BlockStream(file, pos + 4 + n)

\* the header in the first HEADER_SIZE bytes of the segment file
FileHeader == SegmentHeader_deserialize(SubSeq(segFile, 1, HEADER_SIZE)).header

C14_BitFlipIsStorageError ==
    (segRes.op = "read" /\ segHist.finalized /\ segHist.damage.kind = "flip")
        => (~segRes.ok /\ segRes.err = "Storage")

\* C14, the part the code keeps: a read after the flip never returns events
C14_BitFlipIsAnError ==
    (segRes.op = "read" /\ segHist.finalized /\ segHist.damage.kind = "flip")
        => ~segRes.ok

RECURSIVE EndsInsideBlock(_, _)
\* the file ends inside a block: walking the blocks from offset pos, a complete
\* length prefix announces more bytes than remain
EndsInsideBlock(file, pos) ==
    IF Len(file) - pos < 4 THEN FALSE
    ELSE LET n == FromU32LE(SubSeq(file, pos + 1, pos + 4))
         IN  IF Len(file) - pos - 4 < n THEN TRUE
             ELSE EndsInsideBlock(file, pos + 4 + n)

\* C15 (truncated segment block is corruption): a file with the COMPRESSED flag
\* that ends inside a block (the length prefix announces more bytes than remain)
\* makes read_events fail with a storage (corruption) error, not end cleanly.
C15_TruncatedBlockIsStorageError ==
    (/\ segRes.op = "read" /\ segHist.finalized /\ segHist.damage.kind = "cut"
     /\ FileHeader.flags % 2 = FLAG_COMPRESSED
     /\ EndsInsideBlock(segFile, HEADER_SIZE))
        => (~segRes.ok /\ segRes.err = "Storage")

\* C15, the part the code keeps: such a file is never read as a clean end of file
C15_TruncatedBlockIsAnError ==
    (/\ segRes.op = "read" /\ segHist.finalized /\ segHist.damage.kind = "cut"
     /\ FileHeader.flags % 2 = FLAG_COMPRESSED
     /\ EndsInsideBlock(segFile, HEADER_SIZE))
        => ~segRes.ok

RECURSIVE CompleteBlocks(_, _)
\* history: the events of the blocks that lie wholly within the first `room`
\* bytes after the header
CompleteBlocks(blocks, room) ==
    IF blocks = <<>> \/ Head(blocks).n > room THEN <<>>
    ELSE Head(blocks).events \o CompleteBlocks(Tail(blocks), room - Head(blocks).n)

\* C16 (unsealed segment with torn trailing block is readable): the writer was
\* lost without finalize after k complete blocks and possibly part of another;
\* reading the file returns the events of the k complete blocks and no error.
C16_UnsealedSegmentReadable ==
    (segRes.op = "read" /\ segHist.lost)
        => /\ segRes.ok
           /\ segRes.events = CompleteBlocks(segHist.blocks, Len(segFile) - HEADER_SIZE)

\* C16, what the code does: the read of an unsealed file returns no event at all;
\* it succeeds only when fewer than 4 bytes follow the header
C16_UnsealedSegmentYieldsNothing ==
    (segRes.op = "read" /\ segHist.lost)
        => /\ segRes.ok <=> (Len(segFile) - HEADER_SIZE < 4)
           /\ segRes.ok => segRes.events = <<>>

\* the step is a call of SegmentWriter::append
IsSegmentAppend == segRes'.op = "append" /\ segHist'.appends = segHist.appends + 1

\* C17 (segment bounds check): SegmentWriter::append returns a temporal error iff
\* the event's timestamp is below start_time or at or above end_time, and then
\* event_count, buffer, offset, checksum state and the file are as they were.
C17_BoundsCheck ==
    [][IsSegmentAppend =>
         LET ts == segRes'.event.timestamp
             outside == ts < segWriter.header.start_time \/ ts >= segWriter.header.end_time
         IN  /\ (~segRes'.ok /\ segRes'.err = "Temporal") <=> outside
             /\ outside => (segWriter' = segWriter /\ segFile' = segFile)
             /\ ~outside => segRes'.ok]_vars

\* an event stamped exactly end_time was refused by a writer that holds events
C17_Witness ==
    /\ segRes.op = "append" /\ ~segRes.ok /\ segRes.err = "Temporal"
    /\ segWriter # NoWriter
    /\ segRes.event.timestamp = segWriter.header.end_time
    /\ segWriter.header.event_count >= 1
    /\ segWriter.event_buffer # <<>>

\* C18 (zero-event segment): create followed by finalize with no accepted append
\* writes no block, leaves the COMPRESSED flag unset and event_count 0; open and
\* read_events on that file succeed with the empty sequence.
C18_ZeroEventSegment ==
    (segHist.finalized /\ segHist.events = <<>> /\ segHist.damage.kind = "none")
        => /\ Len(segFile) = HEADER_SIZE
           /\ FileHeader.flags % 2 = 0
           /\ FileHeader.event_count = 0
           /\ segRes.op = "read" => (segRes.ok /\ segRes.events = <<>>)

\* a finalized segment without events was opened and read
C18_Witness ==
    /\ segHist.finalized /\ segHist.events = <<>> /\ segHist.damage.kind = "none"
    /\ segRes.op = "read" /\ segRes.ok /\ segRes.events = <<>>
    /\ segRes.header.event_count = 0

----------------------------------------------------------------------------
(* SegmentManager (src/storage/segment_journal.rs); st = [sm, dir] is the manager
   with the directory it writes *)

MapPut(m, k, v) == [x \in (DOMAIN m) \cup {k} |-> IF x = k THEN v ELSE m[x]]

\* map.entry(k).or_insert_with(Vec::new).push(e)
PushTo(m, k, e) == MapPut(m, k, IF k \in DOMAIN m THEN Append(m[k], e) ELSE <<e>>)

Range(seq) == {seq[i] : i \in DOMAIN seq}

\* SegmentManager::new: the directory's files are not looked at
SegmentManager_new == [active |-> NoWriter, next_segment_id |-> 1, segments |-> <<>>]

\* open_new_segment that leaves next_segment_id as it was
open_new_segment_reusesId(st) ==
    LET segment_id == st.sm.next_segment_id
        c == SegmentWriter_create(segment_id, I64_MIN + 1, I64_MAX)
    IN  [sm |-> [st.sm EXCEPT !.active = c.writer],
         dir |-> MapPut(st.dir, segment_id, c.file)]

open_new_segment(st) ==
    LET segment_id == st.sm.next_segment_id
        c == SegmentWriter_create(segment_id, I64_MIN + 1, I64_MAX)
    IN  [sm |-> [st.sm EXCEPT !.next_segment_id = segment_id + 1, !.active = c.writer],
         dir |-> MapPut(st.dir, segment_id, c.file)]

\* rotate_if_needed with > in place of >=
rotate_if_needed_strict(st) ==
    IF st.sm.active.open
       /\ (\/ st.sm.active.header.event_count > MAX_EVENTS_PER_SEGMENT
           \/ st.sm.active.header.compressed_size > MAX_SEGMENT_SIZE)
    THEN LET id == st.sm.active.header.segment_id
             f == SegmentWriter_finalize(st.sm.active, st.dir[id])
         IN  [sm |-> [st.sm EXCEPT !.active = NoWriter, !.segments = Append(@, f.header)],
              dir |-> MapPut(st.dir, id, f.file)]
    ELSE st

rotate_if_needed(st) ==
    IF st.sm.active.open
       /\ (\/ st.sm.active.header.event_count >= MAX_EVENTS_PER_SEGMENT
           \/ st.sm.active.header.compressed_size >= MAX_SEGMENT_SIZE)
    THEN LET id == st.sm.active.header.segment_id
             f == SegmentWriter_finalize(st.sm.active, st.dir[id])
         IN  [sm |-> [st.sm EXCEPT !.active = NoWriter, !.segments = Append(@, f.header)],
              dir |-> MapPut(st.dir, id, f.file)]
    ELSE st

\* SegmentManager::append_event
append_event(st, event) ==
    LET s1 == IF ~st.sm.active.open THEN open_new_segment(st) ELSE st
        id == s1.sm.active.header.segment_id
        a == SegmentWriter_append(s1.sm.active, s1.dir[id], event)
    IN  IF ~a.ok THEN [ok |-> FALSE, err |-> a.err, st |-> s1]
        ELSE [ok |-> TRUE,
              st |-> rotate_if_needed([sm |-> [s1.sm EXCEPT !.active = a.writer],
                                       dir |-> MapPut(s1.dir, id, a.file)])]

\* flush that finalizes the active writer without adding its header to the catalog
SegmentManager_flush_forgetsHeader(st) ==
    IF st.sm.active.open
    THEN LET id == st.sm.active.header.segment_id
             f == SegmentWriter_finalize(st.sm.active, st.dir[id])
         IN  [sm |-> [st.sm EXCEPT !.active = NoWriter],
              dir |-> MapPut(st.dir, id, f.file)]
    ELSE st

\* SegmentManager::flush
SegmentManager_flush(st) ==
    IF st.sm.active.open
    THEN LET id == st.sm.active.header.segment_id
             f == SegmentWriter_finalize(st.sm.active, st.dir[id])
         IN  [sm |-> [st.sm EXCEPT !.active = NoWriter, !.segments = Append(@, f.header)],
              dir |-> MapPut(st.dir, id, f.file)]
    ELSE st

\* SegmentManager::append_event with writer.append(event)? failing in flush_buffer:
\* the error is returned at once, self.active still holds the writer
append_event_flush_fails(st, event, stage, kept) ==
    LET s1 == IF ~st.sm.active.open THEN open_new_segment(st) ELSE st
        id == s1.sm.active.header.segment_id
        a == SegmentWriter_append_flush_fails(s1.sm.active, s1.dir[id], event, stage, kept)
    IN  [ok |-> FALSE, err |-> a.err,
         st |-> [sm |-> [s1.sm EXCEPT !.active = a.writer],
                 dir |-> MapPut(s1.dir, id, a.file)]]

\* SegmentManager::flush (and the rotation in rotate_if_needed) with finalize
\* failing: self.active.take() came first, so the writer is gone and no header
\* is pushed
SegmentManager_finalize_fails(st, stage, kept) ==
    LET id == st.sm.active.header.segment_id
        f == SegmentWriter_finalize_fails(st.sm.active, st.dir[id], stage, kept)
    IN  [ok |-> FALSE, err |-> f.err,
         st |-> [sm |-> [st.sm EXCEPT !.active = NoWriter],
                 dir |-> MapPut(st.dir, id, f.file)]]

RECURSIVE read_all_from(_, _, _)
\* SegmentManager::read_all_events, the loop from catalog entry i on
read_all_from(st, i, all) ==
    IF i > Len(st.sm.segments) THEN [ok |-> TRUE, events |-> all]
    ELSE LET id == st.sm.segments[i].segment_id
         IN  IF id \notin DOMAIN st.dir THEN read_all_from(st, i + 1, all)
             ELSE LET r == SegmentReader_read(st.dir[id])
                  IN  IF ~r.ok THEN [ok |-> FALSE, err |-> r.err]
                      ELSE read_all_from(st, i + 1, all \o r.events)

\* SegmentManager::read_all_events
read_all_events(st) == read_all_from(st, 1, <<>>)

----------------------------------------------------------------------------
(* Timeline and InMemoryJournal (src/core/timeline.rs, src/storage/journal.rs) *)

Timeline_new(entity_id) == [entity_id |-> entity_id, events |-> EmptyMap, version |-> 0]

\* Timeline::append that puts the event in front of those with the same timestamp
Timeline_append_tiesReversed(tl, event) ==
    [tl EXCEPT !.events = MapPut(@, event.timestamp,
                                 IF event.timestamp \in DOMAIN @
                                 THEN <<event>> \o @[event.timestamp] ELSE <<event>>),
               !.version = @ + 1]

Timeline_append(tl, event) ==
    [tl EXCEPT !.events = PushTo(@, event.timestamp, event), !.version = @ + 1]

RECURSIVE FlattenByKey_descending(_, _)
\* the buckets in descending key order
FlattenByKey_descending(m, keys) ==
    IF keys = {} THEN <<>>
    ELSE LET k == CHOOSE x \in keys : \A y \in keys : y <= x
         IN  m[k] \o FlattenByKey_descending(m, keys \ {k})

RECURSIVE FlattenByKey(_, _)
\* BTreeMap::values().flatten(): the buckets in ascending key order
FlattenByKey(m, keys) ==
    IF keys = {} THEN <<>>
    ELSE LET k == CHOOSE x \in keys : \A y \in keys : x <= y
         IN  m[k] \o FlattenByKey(m, keys \ {k})

Timeline_events(tl) == FlattenByKey(tl.events, DOMAIN tl.events)

\* an Option: None, or Some(value)
None == [some |-> FALSE]
Some(v) == [some |-> TRUE, value |-> v]

\* HashMap::get(k).cloned()
MapGet(m, k) == IF k \in DOMAIN m THEN Some(m[k]) ELSE None

\* latest_before that takes the first event of the tie bucket
Timeline_latest_before_firstOfTies(tl, timestamp) ==
    LET keys == {k \in DOMAIN tl.events : k <= timestamp}
    IN  IF keys = {} THEN None
        ELSE LET k == CHOOSE x \in keys : \A y \in keys : y <= x
             IN  IF tl.events[k] = <<>> THEN None ELSE Some(tl.events[k][1])

\* latest_before that looks the other way: the first event of the smallest key
\* at or after the timestamp
Timeline_latest_before_earliestAfter(tl, timestamp) ==
    LET keys == {k \in DOMAIN tl.events : k >= timestamp}
    IN  IF keys = {} THEN None
        ELSE LET k == CHOOSE x \in keys : \A y \in keys : x <= y
             IN  IF tl.events[k] = <<>> THEN None ELSE Some(tl.events[k][1])

\* Timeline::latest_before: range(..=timestamp).next_back(), then events.last()
Timeline_latest_before(tl, timestamp) ==
    LET keys == {k \in DOMAIN tl.events : k <= timestamp}
    IN  IF keys = {} THEN None
        ELSE LET k == CHOOSE x \in keys : \A y \in keys : y <= x
             IN  IF tl.events[k] = <<>> THEN None
                 ELSE Some(tl.events[k][Len(tl.events[k])])

\* Timeline::events_up_to: the buckets with key <= timestamp in ascending key order
Timeline_events_up_to(tl, timestamp) ==
    FlattenByKey(tl.events, {k \in DOMAIN tl.events : k <= timestamp})

\* Timeline::events_in_range: BTreeMap::range(start..end) panics when start > end,
\* else the buckets with start <= key < end in ascending key order
Timeline_events_in_range(tl, start, end) ==
    IF start > end THEN [panicked |-> TRUE]
    ELSE [panicked |-> FALSE,
          events |-> FlattenByKey(tl.events, {k \in DOMAIN tl.events : start <= k /\ k < end})]

InMemoryJournal_new == [timelines |-> EmptyMap, events_by_type |-> EmptyMap]

\* InMemoryJournal::append
InMemoryJournal_append(j, event) ==
    LET tl == IF event.entity_id \in DOMAIN j.timelines
              THEN j.timelines[event.entity_id]
              ELSE Timeline_new(event.entity_id)
    IN  [timelines |-> MapPut(j.timelines, event.entity_id, Timeline_append(tl, event)),
         events_by_type |-> PushTo(j.events_by_type, event.event_type, event)]

\* InMemoryJournal::get_entity_events
get_entity_events(j, entity_id) ==
    IF entity_id \in DOMAIN j.timelines THEN Timeline_events(j.timelines[entity_id]) ELSE <<>>

\* InMemoryJournal::get_events: an unknown entity gives the empty vector without a
\* range scan
get_events(j, entity_id, start, end) ==
    IF entity_id \in DOMAIN j.timelines
    THEN Timeline_events_in_range(j.timelines[entity_id], start, end)
    ELSE [panicked |-> FALSE, events |-> <<>>]

\* InMemoryJournal::get_latest_event
get_latest_event(j, entity_id, timestamp) ==
    IF entity_id \in DOMAIN j.timelines
    THEN Timeline_latest_before(j.timelines[entity_id], timestamp)
    ELSE None

----------------------------------------------------------------------------
(* One InMemoryJournal: appends in any order of timestamps, and the entity query *)

\* the events appended: <<event_type, timestamp, entity_id, data>>
MemoryInputs == {<<1, ts, entity, <<>>>> : ts \in {1, 2, 3}, entity \in {1, 2}}

\* InMemoryJournal::append
Memory_append ==
    /\ Len(memLog) < MaxMemoryAppends
    /\ \E in \in MemoryInputs :
         LET event == NewEvent(Len(memLog) + 1, in[1], in[2], in[3], in[4])
         IN  /\ memJournal' = InMemoryJournal_append(memJournal, event)
             /\ memLog' = Append(memLog, event)
             /\ memRes' = [op |-> "append", ok |-> TRUE]

\* InMemoryJournal::get_entity_events
Memory_get_entity_events ==
    /\ memRes.op # "get_entity_events"
    /\ \E entity_id \in {1, 2} :
         memRes' = [op |-> "get_entity_events", entity_id |-> entity_id,
                    events |-> get_entity_events(memJournal, entity_id)]
    /\ UNCHANGED <<memJournal, memLog>>

\* the entities asked for (entity 3 is never appended) and the times asked for
QueryEntities == {1, 2, 3}
QueryTimes == {0, 1, 2, 3, 4}

\* InMemoryJournal::get_latest_event
Memory_get_latest_event ==
    /\ memRes.op \in {"new", "append"}
    /\ \E entity_id \in QueryEntities, timestamp \in QueryTimes :
         memRes' = [op |-> "get_latest_event", entity_id |-> entity_id,
                    timestamp |-> timestamp,
                    event |-> get_latest_event(memJournal, entity_id, timestamp)]
    /\ UNCHANGED <<memJournal, memLog>>

\* InMemoryJournal::get_events
Memory_get_events ==
    /\ memRes.op \in {"new", "append"}
    /\ \E entity_id \in QueryEntities, start \in QueryTimes, end \in QueryTimes :
         memRes' = [op |-> "get_events", entity_id |-> entity_id,
                    start |-> start, end |-> end]
                   @@ get_events(memJournal, entity_id, start, end)
    /\ UNCHANGED <<memJournal, memLog>>

\* Timeline::events_up_to on a timeline the journal holds
Memory_events_up_to ==
    /\ memRes.op \in {"new", "append"}
    /\ \E entity_id \in DOMAIN memJournal.timelines, timestamp \in QueryTimes :
         memRes' = [op |-> "events_up_to", entity_id |-> entity_id,
                    timestamp |-> timestamp,
                    events |-> Timeline_events_up_to(memJournal.timelines[entity_id],
                                                     timestamp)]
    /\ UNCHANGED <<memJournal, memLog>>

MemoryNext ==
    \/ Memory_append /\ UNCHANGED notMemory
    \/ Memory_events_up_to /\ UNCHANGED notMemory
    \/ Memory_get_events /\ UNCHANGED notMemory
    \/ Memory_get_entity_events /\ UNCHANGED notMemory
    \/ Memory_get_latest_event /\ UNCHANGED notMemory

SpecMemory == Init /\ [][MemoryNext]_vars

\* history: the events of the entity the last query asked for, in append order
AppendedOfEntity == SelectSeq(memLog, LAMBDA e : e.entity_id = memRes.entity_id)

\* the position of an event in a sequence that holds it once
PositionIn(seq, e) == CHOOSE i \in DOMAIN seq : seq[i] = e

NonDecreasing(seq) ==
    \A i, j \in DOMAIN seq : i < j => seq[i].timestamp <= seq[j].timestamp

\* history: the positions in AppendedOfEntity of the events stamped at or before
\* the time the last query asked for
AtOrBefore == {i \in DOMAIN AppendedOfEntity : AppendedOfEntity[i].timestamp <= memRes.timestamp}

\* C22 (as-of query): get_latest_event(entity, t) returns an event of the entity
\* whose timestamp is the greatest one <= t, and of the events sharing that
\* timestamp the one appended last; it returns absent exactly when the entity is
\* unknown or has no event with timestamp <= t.
C22_AsOfQuery ==
    memRes.op = "get_latest_event" =>
        IF AtOrBefore = {} THEN memRes.event = None
        ELSE /\ memRes.event.some
             /\ \E i \in AtOrBefore :
                  /\ memRes.event.value = AppendedOfEntity[i]
                  /\ \A j \in AtOrBefore :
                       \/ AppendedOfEntity[j].timestamp < AppendedOfEntity[i].timestamp
                       \/ (AppendedOfEntity[j].timestamp = AppendedOfEntity[i].timestamp
                           /\ j <= i)

\* the answer is the later of two events sharing the greatest timestamp <= t, a
\* later-stamped event of the entity being left out
C22_Witness ==
    /\ memRes.op = "get_latest_event"
    /\ memRes.event.some
    /\ Len(AppendedOfEntity) >= 3
    /\ \E i \in AtOrBefore :
         /\ AppendedOfEntity[i] # memRes.event.value
         /\ AppendedOfEntity[i].timestamp = memRes.event.value.timestamp
    /\ \E i \in DOMAIN AppendedOfEntity : AppendedOfEntity[i].timestamp > memRes.timestamp

\* the result holds exactly the entity's events stamped in [start, end), each once
ExactlyInRange ==
    /\ Range(memRes.events)
         = {e \in Range(AppendedOfEntity) :
               memRes.start <= e.timestamp /\ e.timestamp < memRes.end}
    /\ Cardinality(Range(memRes.events)) = Len(memRes.events)

\* C23 (range query membership): for every timeline and every pair of timestamps
\* a and b, in any order, events_in_range(a, b) (and get_events on it) returns a
\* result, and the result holds exactly the events with a <= timestamp < b, each
\* once.
C23_RangeMembership ==
    memRes.op = "get_events" => (~memRes.panicked /\ ExactlyInRange)

\* C23, the part the code keeps: the same for a <= b
C23_RangeMembershipOrdered ==
    (memRes.op = "get_events" /\ memRes.start <= memRes.end)
        => (~memRes.panicked /\ ExactlyInRange)

\* r lists the events of a in non-decreasing timestamp order, events of equal
\* timestamp in their order in a
StableByTimestamp(r, a) ==
    /\ Len(r) = Len(a)
    /\ Range(r) = Range(a)
    /\ NonDecreasing(r)
    /\ \A i, j \in DOMAIN r :
         (i < j /\ r[i].timestamp = r[j].timestamp)
            => PositionIn(a, r[i]) < PositionIn(a, r[j])

\* C24 (timeline read order): after appends in any timestamp order, events(),
\* events_up_to and get_entity_events yield the timeline's events in non-decreasing
\* timestamp order, events with equal timestamps in the order they were inserted.
C24_TimelineReadOrder ==
    /\ memRes.op = "get_entity_events"
         => StableByTimestamp(memRes.events, AppendedOfEntity)
    /\ memRes.op = "events_up_to"
         => StableByTimestamp(memRes.events,
                SelectSeq(AppendedOfEntity, LAMBDA e : e.timestamp <= memRes.timestamp))
    /\ \A entity_id \in DOMAIN memJournal.timelines :
         StableByTimestamp(Timeline_events(memJournal.timelines[entity_id]),
                           SelectSeq(memLog, LAMBDA e : e.entity_id = entity_id))

\* events_up_to answered with three events, appended in decreasing timestamp
\* order at first, two of them sharing a timestamp, one later event left out
C24_Witness ==
    /\ memRes.op = "events_up_to"
    /\ Len(memRes.events) = 3
    /\ Len(AppendedOfEntity) = 4
    /\ AppendedOfEntity[1].timestamp > AppendedOfEntity[2].timestamp
    /\ memRes.events[2].timestamp = memRes.events[3].timestamp
    /\ NonDecreasing(memRes.events)

\* C20 as stated (append order is query order): get_entity_events(e) returns the
\* events of entity e in the order in which they were appended.
C20_AppendOrderIsQueryOrder ==
    memRes.op = "get_entity_events" => memRes.events = AppendedOfEntity

\* C20 amended: get_entity_events(e) returns the events of entity e in
\* non-decreasing timestamp order, events with equal timestamps in the order in
\* which they were appended; this is the order of the appends exactly when the
\* events of e were appended with non-decreasing timestamps.
C20_TimestampOrderTiesInAppendOrder ==
    memRes.op = "get_entity_events" =>
        LET r == memRes.events
            a == AppendedOfEntity
        IN  /\ Len(r) = Len(a)
            /\ Range(r) = Range(a)
            /\ NonDecreasing(r)
            /\ \A i, j \in DOMAIN r :
                 (i < j /\ r[i].timestamp = r[j].timestamp)
                    => PositionIn(a, r[i]) < PositionIn(a, r[j])
            /\ (r = a) <=> NonDecreasing(a)

\* a query answered in another order than the appends, two of the events sharing
\* a timestamp
C20_Witness ==
    /\ memRes.op = "get_entity_events"
    /\ Len(memRes.events) >= 3
    /\ memRes.events # AppendedOfEntity
    /\ Range(memRes.events) = Range(AppendedOfEntity)
    /\ \E i \in DOMAIN memRes.events : \E j \in DOMAIN memRes.events :
         i < j /\ memRes.events[i].timestamp = memRes.events[j].timestamp

----------------------------------------------------------------------------
(* One TemporalDB (src/db.rs) shared by tasks: insert and queries under the    *)
(* journal's tokio RwLock                                                      *)

DbTasks == 1 .. MaxDbTasks

\* InMemoryJournal::append, its first half: the insert into the entity's timeline
InMemoryJournal_append_timeline(j, event) ==
    LET tl == IF event.entity_id \in DOMAIN j.timelines
              THEN j.timelines[event.entity_id]
              ELSE Timeline_new(event.entity_id)
    IN  [j EXCEPT !.timelines = MapPut(@, event.entity_id, Timeline_append(tl, event))]

\* InMemoryJournal::append, its second half: the push onto the type index
InMemoryJournal_append_type(j, event) ==
    [j EXCEPT !.events_by_type = PushTo(@, event.event_type, event)]

\* the ids a query of the journal can return from the timelines, and from the
\* type index
TimelineIds(j) ==
    UNION {{e.id : e \in Range(Timeline_events(j.timelines[ent]))} : ent \in DOMAIN j.timelines}
TypeIndexIds(j) ==
    UNION {{e.id : e \in Range(j.events_by_type[ty])} : ty \in DOMAIN j.events_by_type}

\* TemporalDB::insert is called by task t: the event is built
db_insert(t) ==
    /\ dbTask[t].pc = "idle"
    /\ dbCount < MaxDbInserts
    /\ \E entity_id \in {1, 2} :
         dbTask' = [dbTask EXCEPT ![t] =
                      [pc |-> "want_write",
                       event |-> NewEvent(dbCount + 1, 1, 1, entity_id, <<dbCount + 1>>)]]
    /\ dbCount' = dbCount + 1
    /\ UNCHANGED <<dbJournal, dbLock, dbCurrent, dbObs>>

\* RwLock::write granted while a reader or a writer holds the lock
db_write_lock_noExclusion(t) ==
    /\ dbTask[t].pc = "want_write"
    /\ dbLock' = [dbLock EXCEPT !.writer = t]
    /\ dbTask' = [dbTask EXCEPT ![t].pc = "timeline"]
    /\ UNCHANGED <<dbJournal, dbCurrent, dbObs, dbCount>>

\* self.journal.write().await: granted when nobody holds the lock
db_write_lock(t) ==
    /\ dbTask[t].pc = "want_write"
    /\ dbLock.writer = 0 /\ dbLock.readers = {}
    /\ dbLock' = [dbLock EXCEPT !.writer = t]
    /\ dbTask' = [dbTask EXCEPT ![t].pc = "timeline"]
    /\ UNCHANGED <<dbJournal, dbCurrent, dbObs, dbCount>>

\* InMemoryJournal::append under the write guard: timeline.append(event.clone())
db_append_timeline(t) ==
    /\ dbTask[t].pc = "timeline"
    /\ dbJournal' = InMemoryJournal_append_timeline(dbJournal, dbTask[t].event)
    /\ dbTask' = [dbTask EXCEPT ![t].pc = "type_index"]
    /\ UNCHANGED <<dbLock, dbCurrent, dbObs, dbCount>>

\* InMemoryJournal::append under the write guard: the push onto events_by_type;
\* append returns and the guard is dropped
db_append_type(t) ==
    /\ dbTask[t].pc = "type_index"
    /\ dbJournal' = InMemoryJournal_append_type(dbJournal, dbTask[t].event)
    /\ dbLock' = [dbLock EXCEPT !.writer = IF @ = t THEN 0 ELSE @]
    /\ dbTask' = [dbTask EXCEPT ![t].pc = "state"]
    /\ UNCHANGED <<dbCurrent, dbObs, dbCount>>

\* TemporalDB::insert, its end: current_state.write().await.insert(entity, data)
db_update_state(t) ==
    /\ dbTask[t].pc = "state"
    /\ dbCurrent' = MapPut(dbCurrent, dbTask[t].event.entity_id, dbTask[t].event.data)
    /\ dbTask' = [dbTask EXCEPT ![t] = [pc |-> "idle"]]
    /\ UNCHANGED <<dbJournal, dbLock, dbObs, dbCount>>

\* a query (query_as_of, query_range, get_entity_events) is called by task t
db_query(t) ==
    /\ dbTask[t].pc = "idle"
    /\ dbTask' = [dbTask EXCEPT ![t] = [pc |-> "want_read"]]
    /\ UNCHANGED <<dbJournal, dbLock, dbCurrent, dbObs, dbCount>>

\* self.journal.read().await: granted when no writer holds the lock
db_read_lock(t) ==
    /\ dbTask[t].pc = "want_read"
    /\ dbLock.writer = 0
    /\ dbLock' = [dbLock EXCEPT !.readers = @ \cup {t}]
    /\ dbTask' = [dbTask EXCEPT ![t].pc = "reading"]
    /\ UNCHANGED <<dbJournal, dbCurrent, dbObs, dbCount>>

\* the journal's query runs under the read guard and returns; the guard is dropped
db_read(t) ==
    /\ dbTask[t].pc = "reading"
    /\ dbObs' = [seen |-> TRUE, timeline_ids |-> TimelineIds(dbJournal),
                 type_ids |-> TypeIndexIds(dbJournal)]
    /\ dbLock' = [dbLock EXCEPT !.readers = @ \ {t}]
    /\ dbTask' = [dbTask EXCEPT ![t] = [pc |-> "idle"]]
    /\ UNCHANGED <<dbJournal, dbCurrent, dbCount>>

DbNext ==
    \/ (\E t \in DbTasks : db_insert(t)) /\ UNCHANGED notDb
    \/ (\E t \in DbTasks : db_write_lock(t)) /\ UNCHANGED notDb
    \/ (\E t \in DbTasks : db_append_timeline(t)) /\ UNCHANGED notDb
    \/ (\E t \in DbTasks : db_append_type(t)) /\ UNCHANGED notDb
    \/ (\E t \in DbTasks : db_update_state(t)) /\ UNCHANGED notDb
    \/ (\E t \in DbTasks : db_query(t)) /\ UNCHANGED notDb
    \/ (\E t \in DbTasks : db_read_lock(t)) /\ UNCHANGED notDb
    \/ (\E t \in DbTasks : db_read(t)) /\ UNCHANGED notDb

SpecDB == Init /\ [][DbNext]_vars

\* the tasks inside InMemoryJournal::append
Appending == {t \in DbTasks : dbTask[t].pc \in {"timeline", "type_index"}}

\* C27 (no torn view for readers): with concurrent insert and query tasks on one
\* TemporalDB, every journal query sees of each append none or all of its index
\* effects (timeline insert and type-index insert), and the steps of two appends
\* never interleave.
C27_NoTornView ==
    /\ dbObs.timeline_ids = dbObs.type_ids
    /\ dbLock.readers # {} => TimelineIds(dbJournal) = TypeIndexIds(dbJournal)
    /\ Cardinality(Appending) <= 1
    /\ Appending # {} => dbLock.readers = {}

\* a query has seen an event in both indexes while it shared the lock with a
\* second reader and an insert was waiting for the write lock
C27_Witness ==
    /\ dbObs.seen
    /\ dbObs.timeline_ids # {}
    /\ dbObs.timeline_ids = dbObs.type_ids
    /\ dbLock.readers # {}
    /\ \E t \in DbTasks : dbTask[t].pc = "want_write"

\* no insert is in progress
DbQuiescent ==
    \A t \in DbTasks : dbTask[t].pc \notin {"want_write", "timeline", "type_index", "state"}

\* the events of the entity in the journal, in the order of their appends (the
\* type index keeps append order and every insert has the same type)
DbAppendedOf(entity_id) ==
    IF 1 \in DOMAIN dbJournal.events_by_type
    THEN SelectSeq(dbJournal.events_by_type[1], LAMBDA e : e.entity_id = entity_id)
    ELSE <<>>

\* TemporalDB::get_current, before the bytes are parsed: current_state.get(entity)
db_get_current(entity_id) == MapGet(dbCurrent, entity_id)

\* C37 (current-state cache agrees with the journal): in every quiescent state
\* of a TemporalDB, for every entity e, get_current(e) is the payload of the
\* event for e that was appended to the journal last, also when several
\* insert calls for e run concurrently.
C37_CacheAgreesWithJournal ==
    DbQuiescent =>
        \A e \in {1, 2} :
            db_get_current(e) =
                (IF DbAppendedOf(e) = <<>> THEN None
                 ELSE Some(DbAppendedOf(e)[Len(DbAppendedOf(e))].data))

\* C37, what the code keeps: in a quiescent state get_current(e) is absent
\* exactly when no event of e was appended, and otherwise it is the payload of
\* one of the appended events of e
C37_CacheHoldsAnAppendedPayload ==
    DbQuiescent =>
        \A e \in {1, 2} :
            IF DbAppendedOf(e) = <<>> THEN db_get_current(e) = None
            ELSE \E i \in DOMAIN DbAppendedOf(e) :
                    db_get_current(e) = Some(DbAppendedOf(e)[i].data)

----------------------------------------------------------------------------
(* Timeline values on their own (src/core/timeline.rs): append, append_many,   *)
(* merge                                                                       *)

RECURSIVE Timeline_append_many(_, _)
\* Timeline::append_many: for event in events { self.append(event) }
Timeline_append_many(tl, events) ==
    IF events = <<>> THEN tl
    ELSE Timeline_append_many(Timeline_append(tl, Head(events)), Tail(events))

\* the `exists` of merge: the bucket of self at that timestamp holds the id
merge_exists(tl, timestamp, event) ==
    /\ timestamp \in DOMAIN tl.events
    /\ \E i \in DOMAIN tl.events[timestamp] : tl.events[timestamp][i].id = event.id

RECURSIVE merge_loop(_, _)
\* the two loops of merge over other.events, in key order and bucket order
merge_loop(tl, events) ==
    IF events = <<>> THEN tl
    ELSE LET event == Head(events)
         IN  merge_loop(IF merge_exists(tl, event.timestamp, event) THEN tl
                        ELSE Timeline_append(tl, event),
                        Tail(events))

\* merge that appends every event of other, without the `exists` check
Timeline_merge_noDedup(tl, other) ==
    IF other.entity_id # tl.entity_id THEN tl
    ELSE Timeline_append_many(tl, Timeline_events(other))

\* Timeline::merge
Timeline_merge(tl, other) ==
    IF other.entity_id # tl.entity_id THEN tl
    ELSE merge_loop(tl, Timeline_events(other))

\* the events handed to the timelines: two ids at timestamp 1, one at timestamp
\* 2, a second event bearing id 1 at timestamp 1, and an event of entity 2
TimelineEventPool ==
    { NewEvent(1, 1, 1, 1, <<>>), NewEvent(2, 1, 1, 1, <<>>), NewEvent(3, 1, 2, 1, <<>>),
      NewEvent(1, 1, 1, 1, <<7>>), NewEvent(4, 1, 1, 2, <<>>) }

TimelineRoom(n) ==
    Len(Timeline_events(tlSelf)) + Len(Timeline_events(tlOther)) + n <= MaxTimelineEvents

\* self.append(event)
tl_append ==
    /\ TimelineRoom(1)
    /\ \E event \in TimelineEventPool :
         tlSelf' = Timeline_append(tlSelf, event)
    /\ tlRes' = [op |-> "append"]
    /\ UNCHANGED tlOther

\* self.append_many(events)
tl_append_many ==
    /\ TimelineRoom(2)
    /\ \E a \in TimelineEventPool, b \in TimelineEventPool :
         tlSelf' = Timeline_append_many(tlSelf, <<a, b>>)
    /\ tlRes' = [op |-> "append_many"]
    /\ UNCHANGED tlOther

\* other = Timeline::new(entity_id)
tl_other_new ==
    /\ \E entity_id \in {1, 2} : tlOther' = Timeline_new(entity_id)
    /\ tlRes' = [op |-> "other_new"]
    /\ UNCHANGED tlSelf

\* other.append(event)
tl_other_append ==
    /\ TimelineRoom(1)
    /\ \E event \in TimelineEventPool :
         tlOther' = Timeline_append(tlOther, event)
    /\ tlRes' = [op |-> "other_append"]
    /\ UNCHANGED tlSelf

\* self.merge(&other)
tl_merge ==
    /\ tlSelf' = Timeline_merge(tlSelf, tlOther)
    /\ tlRes' = [op |-> "merge"]
    /\ UNCHANGED tlOther

\* self.latest_before(t1) and self.latest_before(t2) for t1 <= t2
tl_latest_before ==
    /\ \E t1 \in 0 .. 3, t2 \in 0 .. 3 :
         /\ t1 <= t2
         /\ tlRes' = [op |-> "latest_before", t1 |-> t1, t2 |-> t2,
                      r1 |-> Timeline_latest_before(tlSelf, t1),
                      r2 |-> Timeline_latest_before(tlSelf, t2)]
    /\ UNCHANGED <<tlSelf, tlOther>>

TimelineNext ==
    \/ tl_latest_before /\ UNCHANGED notTimeline
    \/ tl_append /\ UNCHANGED notTimeline
    \/ tl_append_many /\ UNCHANGED notTimeline
    \/ tl_other_new /\ UNCHANGED notTimeline
    \/ tl_other_append /\ UNCHANGED notTimeline
    \/ tl_merge /\ UNCHANGED notTimeline

SpecTimeline == Init /\ [][TimelineNext]_vars

\* every event stored in the timeline bears the timeline's entity id
EntityInvariant(tl) ==
    \A i \in DOMAIN Timeline_events(tl) : Timeline_events(tl)[i].entity_id = tl.entity_id

\* C29 (timeline entity invariant): after any sequence of Timeline append,
\* append_many and merge calls every event stored in a timeline has the
\* timeline's entity_id.
C29_TimelineEntityInvariant ==
    EntityInvariant(tlSelf) /\ EntityInvariant(tlOther)

\* C29, the timelines held by a journal: InMemoryJournal::append files each
\* event under its own entity_id, so every timeline of the journal is keyed by
\* its entity_id and holds only events of that entity.
C29_JournalTimelinesEntityInvariant ==
    \A k \in DOMAIN memJournal.timelines :
        /\ memJournal.timelines[k].entity_id = k
        /\ EntityInvariant(memJournal.timelines[k])

\* C33 (latest-before monotonicity): for every timeline and timestamps
\* t1 <= t2, latest_before(t1) is either absent or its timestamp is <= the
\* timestamp of latest_before(t2), which is then present.
C33_LatestBeforeMonotone ==
    tlRes.op = "latest_before" =>
        (tlRes.r1.some =>
            /\ tlRes.r2.some
            /\ tlRes.r1.value.timestamp <= tlRes.r2.value.timestamp)

\* the timeline holds events at timestamps 1 and 2; latest_before(1) returned
\* one of timestamp 1 and latest_before(3) one of timestamp 2
C33_Witness ==
    /\ tlRes.op = "latest_before"
    /\ tlRes.t1 = 1 /\ tlRes.t2 = 3
    /\ tlRes.r1.some /\ tlRes.r2.some
    /\ tlRes.r1.value.timestamp = 1
    /\ tlRes.r2.value.timestamp = 2

\* how many events of the timeline's bucket at the timestamp bear the id
CountAt(tl, timestamp, id) ==
    IF timestamp \in DOMAIN tl.events
    THEN Cardinality({i \in DOMAIN tl.events[timestamp] : tl.events[timestamp][i].id = id})
    ELSE 0

\* C30 (merge deduplicates by identity): merge(other) changes nothing when
\* other's entity_id differs; otherwise afterwards every event of other is in
\* self (its id in the bucket of its timestamp), no id already present at a
\* timestamp is added there again, the version grows by exactly the number of
\* events added, and merging the same other once more changes nothing.
C30_MergeDeduplicates ==
    [][tlRes'.op = "merge" =>
         /\ tlOther.entity_id # tlSelf.entity_id => tlSelf' = tlSelf
         /\ tlOther.entity_id = tlSelf.entity_id =>
              /\ \A i \in DOMAIN Timeline_events(tlOther) :
                    LET e == Timeline_events(tlOther)[i]
                    IN  CountAt(tlSelf', e.timestamp, e.id) >= 1
              /\ \A timestamp \in {1, 2}, id \in 1 .. 4 :
                    CountAt(tlSelf, timestamp, id) >= 1 =>
                        CountAt(tlSelf', timestamp, id) = CountAt(tlSelf, timestamp, id)
              /\ tlSelf'.version - tlSelf.version
                    = Len(Timeline_events(tlSelf')) - Len(Timeline_events(tlSelf))
              /\ Timeline_merge(tlSelf', tlOther) = tlSelf'
         /\ tlRes.op = "merge" => tlSelf' = tlSelf]_vars

\* self held an event, other held one with the same id at that timestamp and
\* one that self lacked; the merge added exactly the one that was lacking
C30_Witness ==
    /\ tlRes.op = "merge"
    /\ tlOther.entity_id = tlSelf.entity_id
    /\ Len(Timeline_events(tlOther)) = 2
    /\ Len(Timeline_events(tlSelf)) = 2
    /\ tlSelf.version = 2
    /\ CountAt(tlOther, 1, 1) = 1 /\ CountAt(tlSelf, 1, 1) = 1
    /\ CountAt(tlOther, 2, 3) = 1 /\ CountAt(tlSelf, 2, 3) = 1
    /\ tlSelf.events[1][1].data # tlOther.events[1][1].data

----------------------------------------------------------------------------
(* One InMemoryMaterializedView (src/storage/materialized_view.rs) shared by   *)
(* tasks                                                                       *)

ViewTasks == 1 .. MaxViewTasks

\* apply_event is called by task t with an event
mv_apply_event(t) ==
    /\ mvTask[t].pc = "idle"
    /\ Len(mvLog) + Cardinality({u \in ViewTasks : mvTask[u].pc \in {"want_write", "insert"}})
         < MaxViewApplies
    /\ \E entity_id \in {1, 2}, data \in {<<>>, <<7>>} :
         mvTask' = [mvTask EXCEPT ![t] =
                      [pc |-> "want_write", event |-> NewEvent(0, 1, 1, entity_id, data)]]
    /\ UNCHANGED <<mvState, mvLock, mvRes, mvLog>>

\* self.state.write(): granted when nobody holds the lock
mv_write_lock(t) ==
    /\ mvTask[t].pc = "want_write"
    /\ mvLock.writer = 0 /\ mvLock.readers = {}
    /\ mvLock' = [mvLock EXCEPT !.writer = t]
    /\ mvTask' = [mvTask EXCEPT ![t].pc = "insert"]
    /\ UNCHANGED <<mvState, mvRes, mvLog>>

\* the insert keeping an entry that is already there (entry().or_insert)
mv_insert_keepsFirst(t) ==
    /\ mvTask[t].pc = "insert"
    /\ mvState' = IF mvTask[t].event.entity_id \in DOMAIN mvState THEN mvState
                  ELSE MapPut(mvState, mvTask[t].event.entity_id, mvTask[t].event.data)
    /\ mvLog' = Append(mvLog, mvTask[t].event)
    /\ mvLock' = [mvLock EXCEPT !.writer = 0]
    /\ mvTask' = [mvTask EXCEPT ![t] = [pc |-> "idle"]]
    /\ UNCHANGED mvRes

\* guard.insert(entity_id, payload.data.clone()); Ok(()) drops the guard
mv_insert(t) ==
    /\ mvTask[t].pc = "insert"
    /\ mvState' = MapPut(mvState, mvTask[t].event.entity_id, mvTask[t].event.data)
    /\ mvLog' = Append(mvLog, mvTask[t].event)
    /\ mvLock' = [mvLock EXCEPT !.writer = 0]
    /\ mvTask' = [mvTask EXCEPT ![t] = [pc |-> "idle"]]
    /\ UNCHANGED mvRes

\* get_current_raw is called by task t for an entity (entity 3 is never applied)
mv_get_current_raw(t) ==
    /\ mvTask[t].pc = "idle"
    /\ \E entity_id \in {1, 2, 3} :
         mvTask' = [mvTask EXCEPT ![t] = [pc |-> "want_read", entity_id |-> entity_id]]
    /\ UNCHANGED <<mvState, mvLock, mvRes, mvLog>>

\* self.state.read(): granted when no writer holds the lock
mv_read_lock(t) ==
    /\ mvTask[t].pc = "want_read"
    /\ mvLock.writer = 0
    /\ mvLock' = [mvLock EXCEPT !.readers = @ \cup {t}]
    /\ mvTask' = [mvTask EXCEPT ![t].pc = "get"]
    /\ UNCHANGED <<mvState, mvRes, mvLog>>

\* Ok(guard.get(entity_id).cloned()) drops the guard
mv_get(t) ==
    /\ mvTask[t].pc = "get"
    /\ mvRes' = [op |-> "get_current_raw", entity_id |-> mvTask[t].entity_id,
                 value |-> MapGet(mvState, mvTask[t].entity_id)]
    /\ mvLock' = [mvLock EXCEPT !.readers = @ \ {t}]
    /\ mvTask' = [mvTask EXCEPT ![t] = [pc |-> "idle"]]
    /\ UNCHANGED <<mvState, mvLog>>

ViewNext ==
    \/ (\E t \in ViewTasks : mv_apply_event(t)) /\ UNCHANGED notView
    \/ (\E t \in ViewTasks : mv_write_lock(t)) /\ UNCHANGED notView
    \/ (\E t \in ViewTasks : mv_insert(t)) /\ UNCHANGED notView
    \/ (\E t \in ViewTasks : mv_get_current_raw(t)) /\ UNCHANGED notView
    \/ (\E t \in ViewTasks : mv_read_lock(t)) /\ UNCHANGED notView
    \/ (\E t \in ViewTasks : mv_get(t)) /\ UNCHANGED notView

SpecView == Init /\ [][ViewNext]_vars

\* history: the payload of the most recently applied event of the entity, if any
LastApplied(log, entity_id) ==
    LET of == SelectSeq(log, LAMBDA e : e.entity_id = entity_id)
    IN  IF of = <<>> THEN None ELSE Some(of[Len(of)].data)

\* C28 (materialized view tracks the last applied event): after any apply_event
\* calls, concurrent ones too, get_current_raw(x) returns exactly the payload bytes
\* of the most recently applied event of entity x, or absent if there is none;
\* apply_event for x leaves the entries of all other entities unchanged.
C28_ViewTracksLastApplied ==
    /\ [][mvRes' # mvRes =>
            mvRes'.value = LastApplied(mvLog, mvRes'.entity_id)]_vars
    /\ [][mvLog' # mvLog =>
            \A y \in {1, 2, 3} :
                y # mvLog'[Len(mvLog')].entity_id => MapGet(mvState', y) = MapGet(mvState, y)]_vars
    /\ [](\A x \in {1, 2, 3} : MapGet(mvState, x) = LastApplied(mvLog, x))

\* get_current_raw returned the payload of the second of two events applied for
\* the entity, after an event of another entity was applied too
C28_Witness ==
    /\ mvRes.op = "get_current_raw"
    /\ Len(mvLog) = 3
    /\ mvRes.value = Some(<<7>>)
    /\ mvRes.value = LastApplied(mvLog, mvRes.entity_id)
    /\ \E i \in DOMAIN mvLog :
         mvLog[i].entity_id = mvRes.entity_id /\ mvLog[i].data = <<>>
    /\ \E i \in DOMAIN mvLog : mvLog[i].entity_id # mvRes.entity_id

----------------------------------------------------------------------------
(* SegmentedJournal: the state machine of one directory and one WAL *)

\* what callers build events from: (type, valid time, entity, payload bytes); the
\* identity is fresh for every event (Uuid::new_v4)
JournalInputs ==
    { <<1, 1, 1, <<>>>>,
      <<1, 0, 2, <<7, 9>>>>,
      <<1, I64_MAX, 1, <<>>>> }

ManagerState == [sm |-> segment_manager, dir |-> dir]

\* the header a step added to the catalog, when it added one
Rotated(st) == Len(st.sm.segments) > Len(segment_manager.segments)
LastHeader(st) == st.sm.segments[Len(st.sm.segments)]

\* history kept beside a step of the manager that took the state to st, the active
\* writer having accepted the events evs when the step ended
SealedAfter(st, evs) ==
    IF Rotated(st)
    THEN MapPut(sealed, LastHeader(st).segment_id,
                [file |-> st.dir[LastHeader(st).segment_id], events |-> evs])
    ELSE sealed

\* append, step 1, with the WAL append left out
append_wal_skipped ==
    /\ pc = "idle"
    /\ hist.calls < MaxJournalCalls
    /\ \E in \in JournalInputs :
         cur' = NewEvent(hist.calls + 1, in[1], in[2], in[3], in[4])
    /\ pc' = "segment"
    /\ hist' = [hist EXCEPT !.calls = @ + 1]
    /\ UNCHANGED <<wal, jRes, segment_manager, dir, in_memory, events_by_type, sealed>>

\* append with the segment manager called before the WAL, the WAL append failing
append_segment_before_wal ==
    /\ pc = "idle"
    /\ hist.calls < MaxJournalCalls
    /\ \E in \in JournalInputs :
         LET event == NewEvent(hist.calls + 1, in[1], in[2], in[3], in[4])
             r == append_event(ManagerState, event)
         IN  /\ segment_manager' = r.st.sm
             /\ dir' = r.st.dir
             /\ jRes' = [op |-> "append", ok |-> FALSE, err |-> "Io", from |-> "wal",
                         id |-> event.id]
    /\ hist' = [hist EXCEPT !.calls = @ + 1]
    /\ UNCHANGED <<wal, pc, cur, in_memory, events_by_type, sealed>>

\* SegmentedJournal::append, step 1: self.wal.append(&event)?, succeeding
append_wal ==
    /\ pc = "idle"
    /\ hist.calls < MaxJournalCalls
    /\ \E in \in JournalInputs :
         LET event == NewEvent(hist.calls + 1, in[1], in[2], in[3], in[4])
         IN  /\ wal' = Append(wal, event)
             /\ cur' = event
    /\ pc' = "segment"
    /\ hist' = [hist EXCEPT !.calls = @ + 1]
    /\ UNCHANGED <<jRes, segment_manager, dir, in_memory, events_by_type, sealed>>

\* SegmentedJournal::append, step 1 failing: the WAL's error is returned
append_wal_fails ==
    /\ pc = "idle"
    /\ hist.calls < MaxJournalCalls
    /\ \E in \in JournalInputs :
         jRes' = [op |-> "append", ok |-> FALSE, err |-> "Io", from |-> "wal",
                  id |-> NewEvent(hist.calls + 1, in[1], in[2], in[3], in[4]).id]
    /\ hist' = [hist EXCEPT !.calls = @ + 1]
    /\ UNCHANGED <<wal, pc, cur, segment_manager, dir, in_memory, events_by_type, sealed>>

\* SegmentedJournal::append, step 2: self.segment_manager.append_event(event.clone())?
append_segment ==
    /\ pc = "segment"
    /\ LET r == append_event(ManagerState, cur)
           evs == IF segment_manager.active.open THEN hist.active_events ELSE <<>>
       IN  /\ segment_manager' = r.st.sm
           /\ dir' = r.st.dir
           /\ IF r.ok
              THEN /\ pc' = "memory"
                   /\ sealed' = SealedAfter(r.st, Append(evs, cur))
                   /\ hist' = [hist EXCEPT
                        !.active_events = IF Rotated(r.st) THEN <<>> ELSE Append(evs, cur),
                        !.early_rotations =
                            IF Rotated(r.st)
                               /\ LastHeader(r.st).event_count < MAX_EVENTS_PER_SEGMENT
                            THEN @ + 1 ELSE @]
                   /\ UNCHANGED <<cur, jRes>>
              ELSE /\ pc' = "idle"
                   /\ jRes' = [op |-> "append", ok |-> FALSE, err |-> r.err,
                               from |-> "segment", id |-> cur.id]
                   /\ cur' = NoEvent
                   /\ hist' = [hist EXCEPT !.active_events = evs]
                   /\ UNCHANGED sealed
    /\ UNCHANGED <<wal, in_memory, events_by_type>>

\* SegmentedJournal::append, step 3: self.in_memory.append(event.clone()).await?
append_memory ==
    /\ pc = "memory"
    /\ in_memory' = InMemoryJournal_append(in_memory, cur)
    /\ pc' = "index"
    /\ UNCHANGED <<wal, segment_manager, dir, events_by_type, cur, jRes, sealed, hist>>

\* SegmentedJournal::append, step 4: self.index_event_by_type(&event); Ok(())
append_index ==
    /\ pc = "index"
    /\ events_by_type' = PushTo(events_by_type, cur.event_type, cur)
    /\ pc' = "idle"
    /\ jRes' = [op |-> "append", ok |-> TRUE, id |-> cur.id]
    /\ cur' = NoEvent
    /\ hist' = [hist EXCEPT !.ok_appends = @ + 1, !.ok_events = Append(@, cur)]
    /\ UNCHANGED <<wal, segment_manager, dir, in_memory, sealed>>

\* SegmentedJournal::flush: self.wal.flush()?; self.segment_manager.flush()?
flush ==
    /\ pc = "idle"
    /\ LET st == SegmentManager_flush(ManagerState)
       IN  /\ segment_manager' = st.sm
           /\ dir' = st.dir
           /\ sealed' = SealedAfter(st, hist.active_events)
    /\ jRes' = [op |-> "flush", ok |-> TRUE]
    /\ hist' = [hist EXCEPT !.flushed = TRUE, !.active_events = <<>>]
    /\ UNCHANGED <<wal, in_memory, events_by_type, pc, cur>>

\* SegmentedJournal::flush with self.wal.flush() failing
flush_wal_fails ==
    /\ pc = "idle"
    /\ jRes' = [op |-> "flush", ok |-> FALSE, err |-> "Io", from |-> "wal"]
    /\ UNCHANGED <<wal, segment_manager, dir, in_memory, events_by_type, pc, cur, sealed, hist>>

\* The process ends, at any point of an append, and a new one constructs
\* SegmentedJournal::new over the same directory and the same WAL file: the files
\* keep every byte written, everything in memory is new.
restart ==
    /\ hist.instance <= MaxJournalRestarts
    /\ segment_manager' = SegmentManager_new
    /\ in_memory' = InMemoryJournal_new
    /\ events_by_type' = EmptyMap
    /\ pc' = "idle"
    /\ cur' = NoEvent
    /\ jRes' = [op |-> "new", ok |-> TRUE]
    /\ hist' = [hist EXCEPT !.instance = @ + 1, !.ok_appends = 0, !.ok_events = <<>>,
                            !.flushed = FALSE,
                            !.active_events = <<>>, !.early_rotations = 0]
    /\ UNCHANGED <<wal, dir, sealed>>

\* the block the active writer would write with the event of the append in progress
PendingBlock ==
    LET compressed == zstd_encode_all(
                          SerializeEvents(Append(segment_manager.active.event_buffer, cur)))
    IN  U32LE(Len(compressed)) \o compressed

\* the event of the append in progress is inside the bounds of the active writer
\* and fills its buffer
FillsBuffer ==
    /\ segment_manager.active.open
    /\ cur.timestamp >= segment_manager.active.header.start_time
    /\ cur.timestamp < segment_manager.active.header.end_time
    /\ Len(segment_manager.active.event_buffer) + 1 >= BUFFER_FLUSH_EVENTS

\* SegmentedJournal::append, step 2 failing in the writer's flush_buffer
append_segment_flush_fails ==
    /\ pc = "segment"
    /\ hist.seg_faults < MaxSegmentFaults
    /\ FillsBuffer
    /\ \E stage \in FlushFailures, kept \in KeptOnFailure(Len(PendingBlock)) :
         LET r == append_event_flush_fails(ManagerState, cur, stage, kept)
         IN  /\ segment_manager' = r.st.sm
             /\ dir' = r.st.dir
             /\ jRes' = [op |-> "append", ok |-> FALSE, err |-> r.err,
                         from |-> "segment_flush", id |-> cur.id,
                         writer |-> segment_manager.active.header.segment_id]
    /\ pc' = "idle"
    /\ cur' = NoEvent
    /\ hist' = [hist EXCEPT !.seg_faults = @ + 1, !.active_events = Append(@, cur)]
    /\ UNCHANGED <<wal, in_memory, events_by_type, sealed>>

\* SegmentedJournal::flush with segment_manager.flush() failing in finalize
flush_finalize_fails ==
    /\ pc = "idle"
    /\ hist.seg_faults < MaxSegmentFaults
    /\ segment_manager.active.open
    /\ \E stage \in FlushFailures \cup {"header"}, kept \in {0, 4} :
         LET r == SegmentManager_finalize_fails(ManagerState, stage, kept)
         IN  /\ segment_manager' = r.st.sm
             /\ dir' = r.st.dir
             /\ jRes' = [op |-> "flush", ok |-> FALSE, err |-> r.err,
                         from |-> "segment_finalize",
                         writer |-> segment_manager.active.header.segment_id]
    /\ hist' = [hist EXCEPT !.seg_faults = @ + 1, !.active_events = <<>>]
    /\ UNCHANGED <<wal, in_memory, events_by_type, pc, cur, sealed>>

\* the batches handed to append_batch
BatchInputs == {<<a, b>> : a \in JournalInputs, b \in JournalInputs}

\* the journal as one value, with the history kept beside it
JournalState ==
    [wal |-> wal, st |-> ManagerState, in_memory |-> in_memory,
     events_by_type |-> events_by_type, sealed |-> sealed,
     active_events |-> hist.active_events, ok_events |-> hist.ok_events]

\* what SegmentedJournal::append makes of the journal js once the segment
\* manager returned r: an error returns after the WAL has the record, else the
\* timeline and the type index take the event (evs: history, the events of the
\* active segment)
journal_append_after(js, event, evs, r) ==
    LET rotated == Len(r.st.sm.segments) > Len(js.st.sm.segments)
        last == r.st.sm.segments[Len(r.st.sm.segments)]
    IN  IF ~r.ok
        THEN [ok |-> FALSE, err |-> r.err,
              js |-> [js EXCEPT !.wal = Append(@, event), !.st = r.st,
                                !.active_events = evs]]
        ELSE [ok |-> TRUE,
              js |-> [wal |-> Append(js.wal, event),
                      st |-> r.st,
                      in_memory |-> InMemoryJournal_append(js.in_memory, event),
                      events_by_type |-> PushTo(js.events_by_type, event.event_type, event),
                      sealed |-> IF rotated
                                 THEN MapPut(js.sealed, last.segment_id,
                                             [file |-> r.st.dir[last.segment_id],
                                              events |-> Append(evs, event)])
                                 ELSE js.sealed,
                      active_events |-> IF rotated THEN <<>> ELSE Append(evs, event),
                      ok_events |-> Append(js.ok_events, event)]]

\* SegmentedJournal::append as one call on the journal js: WAL, segment manager,
\* timeline, type index
journal_append(js, event) ==
    journal_append_after(js, event,
                         IF js.st.sm.active.open THEN js.active_events ELSE <<>>,
                         append_event(js.st, event))

RECURSIVE append_batch_from(_, _)
\* SegmentedJournal::append_batch: for ev in events { self.append(ev).await?; }
append_batch_from(js, events) ==
    IF events = <<>> THEN [ok |-> TRUE, js |-> js]
    ELSE LET r == CHOOSE out \in {journal_append(js, Head(events))} : TRUE
         IN  IF ~r.ok THEN r ELSE append_batch_from(r.js, Tail(events))

\* SegmentedJournal::append_batch
append_batch ==
    /\ pc = "idle"
    /\ hist.calls + 2 <= MaxJournalCalls
    /\ \E in \in BatchInputs :
         \E events \in {[i \in 1 .. 2 |->
                           NewEvent(hist.calls + i, in[i][1], in[i][2], in[i][3], in[i][4])]} :
         \E r \in {append_batch_from(JournalState, events)} :
             /\ wal' = r.js.wal
             /\ segment_manager' = r.js.st.sm
             /\ dir' = r.js.st.dir
             /\ in_memory' = r.js.in_memory
             /\ events_by_type' = r.js.events_by_type
             /\ sealed' = r.js.sealed
             /\ jRes' = IF r.ok
                        THEN [op |-> "append_batch", ok |-> TRUE, ids |-> {e.id : e \in Range(events)}]
                        ELSE [op |-> "append_batch", ok |-> FALSE, err |-> r.err,
                              from |-> "segment", ids |-> {e.id : e \in Range(events)}]
             /\ hist' = [hist EXCEPT !.calls = @ + 2,
                                     !.ok_appends = Len(r.js.ok_events),
                                     !.ok_events = r.js.ok_events,
                                     !.active_events = r.js.active_events]
    /\ UNCHANGED <<pc, cur>>

JournalFaultsNext ==
    \/ append_batch /\ UNCHANGED notJournal
    \/ append_wal /\ UNCHANGED notJournal
    \/ append_segment /\ UNCHANGED notJournal
    \/ append_segment_flush_fails /\ UNCHANGED notJournal
    \/ append_memory /\ UNCHANGED notJournal
    \/ append_index /\ UNCHANGED notJournal
    \/ flush /\ UNCHANGED notJournal
    \/ flush_finalize_fails /\ UNCHANGED notJournal

SpecJournalFaults == Init /\ [][JournalFaultsNext]_vars

JournalNext ==
    \/ append_wal /\ UNCHANGED notJournal
    \/ append_wal_fails /\ UNCHANGED notJournal
    \/ append_segment /\ UNCHANGED notJournal
    \/ append_memory /\ UNCHANGED notJournal
    \/ append_index /\ UNCHANGED notJournal
    \/ flush /\ UNCHANGED notJournal
    \/ flush_wal_fails /\ UNCHANGED notJournal
    \/ restart /\ UNCHANGED notJournal

SpecJournal == Init /\ [][JournalNext]_vars

----------------------------------------------------------------------------
(* The journal's queries *)

\* SegmentedJournal::get_events_by_type, over the journal's own index
get_events_by_type(event_type, start, end) ==
    IF event_type \in DOMAIN events_by_type
    THEN SelectSeq(events_by_type[event_type],
                   LAMBDA e : e.timestamp >= start /\ e.timestamp < end)
    ELSE <<>>

\* SegmentManager::segments
segments == segment_manager.segments

----------------------------------------------------------------------------
(* Claims about the SegmentedJournal *)

Entities == {in[3] : in \in JournalInputs}
EventTypes == {in[1] : in \in JournalInputs}

\* the identities of the events some query of the journal returns
QueryIds ==
    UNION ({ {e.id : e \in Range(get_entity_events(in_memory, ent))} : ent \in Entities }
           \cup { {get_events_by_type(ty, s, I64_MAX)[i].id :
                     i \in DOMAIN get_events_by_type(ty, s, I64_MAX)} :
                  ty \in EventTypes, s \in {I64_MIN, 0} })

\* the step is one call of append that returned the WAL's error
WalAppendFailed ==
    /\ hist'.calls = hist.calls + 1
    /\ jRes'.op = "append" /\ ~jRes'.ok /\ jRes'.from = "wal"

\* C3: when wal.append fails inside SegmentedJournal.append, the call returns
\* that error and leaves the segment manager (active writer, catalog, next id),
\* the segment directory, the timelines and the event-type index as they were;
\* the event is returned by no query.
C3_WalFailureLeavesJournalUntouched ==
    [][WalAppendFailed =>
         /\ jRes'.err = "Io"
         /\ UNCHANGED <<segment_manager, dir, in_memory, events_by_type>>
         /\ jRes'.id \notin QueryIds']_vars

C3_Witness ==
    /\ jRes.op = "append" /\ ~jRes.ok /\ jRes.from = "wal"
    /\ Len(segments) >= 1
    /\ segment_manager.active.open /\ segment_manager.active.header.event_count >= 1
    /\ QueryIds # {}
    /\ jRes.id \notin QueryIds

\* the events the segment files of the manager hold: the active writer's, and
\* those of the segments of the catalog
SegmentEvents ==
    (IF segment_manager.active.open
     THEN Range(segment_manager.active.event_buffer) \cup Range(hist.active_events)
     ELSE {})
      \cup UNION {Range(sealed[segments[i].segment_id].events) : i \in DOMAIN segments}

TimelineEvents ==
    UNION {Range(Timeline_events(in_memory.timelines[ent])) : ent \in DOMAIN in_memory.timelines}

IndexEvents ==
    UNION {Range(events_by_type[ty]) : ty \in DOMAIN events_by_type}
      \cup UNION {Range(in_memory.events_by_type[ty]) : ty \in DOMAIN in_memory.events_by_type}

\* C4: in every reachable state, the states inside one append included, every
\* event in the active segment writer, in a segment of the catalog, in a timeline
\* or in the event-type index is an event the WAL has been given.
C4_WalFirst ==
    (SegmentEvents \cup TimelineEvents \cup IndexEvents) \subseteq Range(wal)

C4_Witness ==
    /\ pc = "memory"
    /\ cur \in SegmentEvents
    /\ cur \notin TimelineEvents \cup IndexEvents
    /\ cur \in Range(wal)
    /\ Len(segments) >= 1
    /\ TimelineEvents # {}

\* the segment files of the directory that still are as finalize left them
FinalizedOnDisk == {id \in DOMAIN sealed : id \in DOMAIN dir /\ dir[id] = sealed[id].file}

RECURSIVE SortedIds(_)
SortedIds(ids) ==
    IF ids = {} THEN <<>>
    ELSE LET least == CHOOSE x \in ids : \A y \in ids : x <= y
         IN  <<least>> \o SortedIds(ids \ {least})

MaxId(ids) == IF ids = {} THEN 0 ELSE CHOOSE x \in ids : \A y \in ids : y <= x

\* C5: a journal constructed over a directory and a WAL that hold what an earlier
\* instance appended and flushed lists the finalized segments of the directory in
\* its catalog, sorted by id, and get_entity_events returns their events.
C5_RecoveryOnConstruction ==
    (jRes.op = "new" /\ hist.instance > 1
       /\ \E id \in FinalizedOnDisk : sealed[id].events # <<>>)
        => /\ [i \in DOMAIN segments |-> segments[i].segment_id] = SortedIds(FinalizedOnDisk)
           /\ \A id \in FinalizedOnDisk : \A e \in Range(sealed[id].events) :
                  e \in Range(get_entity_events(in_memory, e.entity_id))

\* C6: a segment manager constructed on a directory gives its first new segment the
\* id max(existing ids) + 1, and the id 1 on an empty directory.
C6_IdsContinueAcrossReopen ==
    jRes.op = "new" => segment_manager.next_segment_id = MaxId(DOMAIN dir) + 1

\* C7: once finalize has returned the header of a segment file, no later step
\* (of this journal, or of a later journal on the same directory) changes a byte
\* of that file.
C7_FinalizedSegmentNeverChanges ==
    [][\A id \in FinalizedOnDisk : id \in DOMAIN dir' /\ dir'[id] = dir[id]]_vars

\* the journal is the first on its directory, has been flushed by no one, and
\* has returned from MAX_EVENTS_PER_SEGMENT + 1 successful appends
FreshAfterOneMoreThanMax ==
    /\ hist.instance = 1 /\ ~hist.flushed /\ pc = "idle"
    /\ hist.ok_appends = MAX_EVENTS_PER_SEGMENT + 1

RECURSIVE SumEventCount(_)
SumEventCount(headers) ==
    IF headers = <<>> THEN 0 ELSE Head(headers).event_count + SumEventCount(Tail(headers))

\* the catalog entries whose file holds the event
SegmentsHolding(event) ==
    {i \in DOMAIN segments :
        LET r == SegmentReader_read(dir[segments[i].segment_id])
        IN  r.ok /\ event \in Range(r.events)}

\* flush has just returned success on the journal
FlushReturnedOk == jRes.op = "flush" /\ jRes.ok /\ pc = "idle"

RECURSIVE WalImage(_)
\* the bytes of the journal's WAL file: one record per event the WAL accepted
WalImage(events) ==
    IF events = <<>> THEN <<>> ELSE write_record(Head(events)) \o WalImage(Tail(events))

\* self.wal.replay() on the journal's WAL
journal_wal_replay == replay(WalImage(wal))

\* C21 (WAL replay equals segment scan): on a single SegmentedJournal, after any
\* sequence of append calls and a successful flush, wal.replay() and
\* read_all_events() return the same sequence, and it is exactly the events whose
\* append returned success, in call order.
C21_ReplayEqualsSegmentScan ==
    (FlushReturnedOk /\ hist.instance = 1)
        => /\ journal_wal_replay.ok
           /\ journal_wal_replay.events = read_all_events(ManagerState).events
           /\ journal_wal_replay.events = hist.ok_events

\* C21, the part the code keeps: the events whose append returned success are, in
\* call order, a subsequence of what the WAL replays
C21_ReplayHoldsEverySuccess ==
    (FlushReturnedOk /\ hist.instance = 1)
        => /\ journal_wal_replay.ok
           /\ IsSubseq(hist.ok_events, journal_wal_replay.events)

\* a segment file operation has just failed inside append or flush
SegmentFlushFailed ==
    /\ pc = "idle" /\ ~jRes.ok
    /\ jRes.op \in {"append", "flush"}
    /\ jRes.from \in {"segment_flush", "segment_finalize"}

\* C25 (segment flush failure drops the writer): when flushing the segment buffer
\* fails during SegmentedJournal.append or flush, the call returns an error and the
\* journal no longer keeps that writer as its active writer.
C25_FlushFailureDropsWriter ==
    SegmentFlushFailed
        => ~(segment_manager.active.open
             /\ segment_manager.active.header.segment_id = jRes.writer)

\* C25, the part the code keeps: a failure inside flush() (finalize) drops the writer
C25_FinalizeFailureDropsWriter ==
    (SegmentFlushFailed /\ jRes.from = "segment_finalize")
        => ~segment_manager.active.open

RECURSIVE EventsInFile(_, _)
\* the events of the whole, decodable blocks of a segment file from offset pos on
EventsInFile(file, pos) ==
    IF Len(file) - pos < 4 THEN <<>>
    ELSE LET n == FromU32LE(SubSeq(file, pos + 1, pos + 4))
         IN  IF Len(file) - pos - 4 < n THEN <<>>
             ELSE LET d == zstd_decode_all(SubSeq(file, pos + 5, pos + 4 + n))
                      parsed == IF d.ok THEN ParseEvents(d.bytes, 0, <<>>) ELSE d
                  IN  (IF parsed.ok THEN parsed.events ELSE <<>>)
                        \o EventsInFile(file, pos + 4 + n)

\* the ids of the events the WAL holds, of those in a segment (in a block of a
\* file of the directory or in the active writer's buffer), and of those a query
\* can return (timelines, type index)
IdsInWal == {e.id : e \in Range(wal)}
IdsInSegments ==
    UNION {{e.id : e \in Range(EventsInFile(dir[id], HEADER_SIZE))} : id \in DOMAIN dir}
      \cup (IF segment_manager.active.open
            THEN {e.id : e \in Range(segment_manager.active.event_buffer)} ELSE {})
IdsInQueries ==
    UNION {{e.id : e \in Range(get_entity_events(in_memory, ent))} :
              ent \in DOMAIN in_memory.timelines}
      \cup UNION {{e.id : e \in Range(events_by_type[ty])} : ty \in DOMAIN events_by_type}

\* append_batch has just returned
BatchReturned == jRes.op = "append_batch" /\ pc = "idle"

\* C26 (append_batch is atomic): either all events of the batch become part of the
\* journal (WAL, segments and indexes) and the call succeeds, or the call fails and
\* none of them is in the WAL, in a segment or visible to queries.
C26_BatchAtomic ==
    BatchReturned =>
        IF jRes.ok
        THEN jRes.ids \subseteq (IdsInWal \cap IdsInSegments \cap IdsInQueries)
        ELSE jRes.ids \cap (IdsInWal \cup IdsInSegments \cup IdsInQueries) = {}

\* C26, the part the code keeps: a batch that succeeds is wholly in the journal
\* (no segment write having failed before it)
C26_BatchAllOnSuccess ==
    (BatchReturned /\ jRes.ok /\ hist.seg_faults = 0)
        => jRes.ids \subseteq (IdsInWal \cap IdsInSegments \cap IdsInQueries)

----------------------------------------------------------------------------
(* One SegmentHeader and its 64 bytes (src/storage/segment_file.rs)           *)

\* the headers handed to serialize: ids, counts and sizes of one and of two
\* bytes, times of both signs and at both ends of the range, checksums whose
\* four bytes differ, every kind of flags byte
HeaderInputs ==
    [segment_id : {1, 258}, start_time : {I64_MIN, 0, 2}, end_time : {-2, 3, I64_MAX},
     event_count : {0, 513}, compressed_size : {31, 1027},
     checksum : {ZeroWord, <<1, 2, 3, 4>>}, flags : {FLAG_COMPRESSED, 254}]

\* a header is built: a SegmentHeader with public fields
header_new ==
    /\ hdrIn' \in HeaderInputs
    /\ hdrBytes' = <<>>
    /\ hdrOut' = [op |-> "none"]

\* h.serialize()
header_serialize ==
    /\ hdrBytes = <<>>
    /\ hdrBytes' = SegmentHeader_serialize(hdrIn)
    /\ UNCHANGED <<hdrIn, hdrOut>>

\* SegmentHeader::deserialize(&bytes)
header_deserialize ==
    /\ hdrBytes # <<>>
    /\ hdrOut' = [op |-> "deserialize", res |-> SegmentHeader_deserialize(hdrBytes)]
    /\ UNCHANGED <<hdrIn, hdrBytes>>

HeaderNext ==
    \/ header_new /\ UNCHANGED notHeader
    \/ header_serialize /\ UNCHANGED notHeader
    \/ header_deserialize /\ UNCHANGED notHeader

SpecHeader == Init /\ [][HeaderNext]_vars

\* C31 (header round trip): for every SegmentHeader h, serialize(h) is exactly
\* 64 bytes, and deserialize(serialize(h)) succeeds and equals h in segment_id,
\* start_time, end_time, event_count, compressed_size, checksum and flags.
C31_HeaderRoundTrip ==
    /\ hdrBytes # <<>> => Len(hdrBytes) = 64
    /\ hdrOut.op = "deserialize" =>
         /\ hdrOut.res.ok
         /\ hdrOut.res.header.segment_id = hdrIn.segment_id
         /\ hdrOut.res.header.start_time = hdrIn.start_time
         /\ hdrOut.res.header.end_time = hdrIn.end_time
         /\ hdrOut.res.header.event_count = hdrIn.event_count
         /\ hdrOut.res.header.compressed_size = hdrIn.compressed_size
         /\ hdrOut.res.header.checksum = hdrIn.checksum
         /\ hdrOut.res.header.flags = hdrIn.flags

\* a header with a two-byte id, a negative start time, the greatest end time,
\* two-byte count and size, a checksum of four different bytes and the other
\* seven flag bits set came back from deserialize
C31_Witness ==
    /\ hdrOut.op = "deserialize"
    /\ hdrOut.res.ok
    /\ hdrOut.res.header = hdrIn
    /\ hdrIn.segment_id = 258 /\ hdrIn.start_time = I64_MIN /\ hdrIn.end_time = I64_MAX
    /\ hdrIn.event_count = 513 /\ hdrIn.compressed_size = 1027
    /\ hdrIn.checksum = <<1, 2, 3, 4>> /\ hdrIn.flags = 254

\* the little-endian bytes of the values the model's headers hold
U64LE_expected(n) == <<n % 256, (n \div 256) % 256, 0, 0, 0, 0, 0, 0>>
I64LE_expected(t) ==
    IF t >= 0 THEN U64LE_expected(t) ELSE <<256 + t, 255, 255, 255, 255, 255, 255, 255>>

\* the parts of the layout that do not depend on byte order: magic, version,
\* flags, padding
HeaderFixedLayout ==
    /\ SubSeq(hdrBytes, 1, 5) = <<84, 69, 77, 80, 48>>
    /\ hdrBytes[6] = 1
    /\ hdrBytes[45] = hdrIn.flags
    /\ \A i \in 46 .. 64 : hdrBytes[i] = 0

\* C32 (header byte layout): serialize writes the magic TEMP0 at bytes 0..5,
\* version 1 at byte 5, segment id (8..16), start time (16..24), end time
\* (24..32), event count (32..36), compressed size (36..40) and checksum
\* (40..44) each in little-endian byte order, flags at byte 44 and zero padding
\* to 64.
C32_HeaderLayoutLittleEndian ==
    hdrBytes # <<>> =>
        /\ HeaderFixedLayout
        /\ SubSeq(hdrBytes, 9, 16) = U64LE_expected(hdrIn.segment_id)
        /\ SubSeq(hdrBytes, 17, 24) = I64LE_expected(hdrIn.start_time)
        /\ SubSeq(hdrBytes, 25, 32) = I64LE_expected(hdrIn.end_time)
        /\ SubSeq(hdrBytes, 33, 36) = U32LE(hdrIn.event_count)
        /\ SubSeq(hdrBytes, 37, 40) = U32LE(hdrIn.compressed_size)
        /\ SubSeq(hdrBytes, 41, 44) = hdrIn.checksum

\* reversing a byte string
Reversed(b) == [i \in 1 .. Len(b) |-> b[Len(b) + 1 - i]]

\* C32, what the code does: the same offsets, every multi-byte field in
\* big-endian byte order (the reverse of its little-endian bytes).
C32_HeaderLayoutBigEndian ==
    hdrBytes # <<>> =>
        /\ HeaderFixedLayout
        /\ SubSeq(hdrBytes, 9, 16) = Reversed(U64LE_expected(hdrIn.segment_id))
        /\ SubSeq(hdrBytes, 17, 24) = Reversed(I64LE_expected(hdrIn.start_time))
        /\ SubSeq(hdrBytes, 25, 32) = Reversed(I64LE_expected(hdrIn.end_time))
        /\ SubSeq(hdrBytes, 33, 36) = Reversed(U32LE(hdrIn.event_count))
        /\ SubSeq(hdrBytes, 37, 40) = Reversed(U32LE(hdrIn.compressed_size))
        /\ SubSeq(hdrBytes, 41, 44) = Reversed(hdrIn.checksum)

\* SegmentManager::append_event has returned success in this step: the single
\* append goes on to the timeline, or a whole batch returned Ok
AppendEventReturnsOk ==
    \/ pc = "segment" /\ pc' = "memory"
    \/ hist'.calls # hist.calls /\ jRes'.op = "append_batch" /\ jRes'.ok

\* C34 (rotation thresholds hold after every append): whenever
\* SegmentManager.append_event has returned success, an active writer (if any)
\* has event_count < MAX_EVENTS_PER_SEGMENT and compressed_size <
\* MAX_SEGMENT_SIZE, and every catalog segment produced by rotation has
\* event_count <= MAX_EVENTS_PER_SEGMENT.
C34_RotationThresholds ==
    [][AppendEventReturnsOk =>
         /\ segment_manager'.active.open =>
              /\ segment_manager'.active.header.event_count < MAX_EVENTS_PER_SEGMENT
              /\ segment_manager'.active.header.compressed_size < MAX_SEGMENT_SIZE
         /\ \A i \in DOMAIN segment_manager'.segments :
              i > Len(segment_manager.segments) =>
                  segment_manager'.segments[i].event_count <= MAX_EVENTS_PER_SEGMENT]_vars

\* C34 while no write to a segment file has failed: the thresholds hold after
\* every successful append_event.
C34_RotationThresholdsWithoutFaults ==
    [][(AppendEventReturnsOk /\ hist.seg_faults = 0) =>
         /\ segment_manager'.active.open =>
              /\ segment_manager'.active.header.event_count < MAX_EVENTS_PER_SEGMENT
              /\ segment_manager'.active.header.compressed_size < MAX_SEGMENT_SIZE
         /\ \A i \in DOMAIN segment_manager'.segments :
              i > Len(segment_manager.segments) =>
                  segment_manager'.segments[i].event_count <= MAX_EVENTS_PER_SEGMENT]_vars

\* the last append was refused with a temporal error
AppendRefusedByTimestamp ==
    jRes.op = "append" /\ ~jRes.ok /\ jRes.err = "Temporal"

\* C35 (the journal never rejects an event by timestamp): for every event whose
\* valid time lies in [i64::MIN + 1, i64::MAX], SegmentedJournal.append does
\* not fail with a temporal error. (Every event of JournalInputs is in that
\* range.)
C35_NeverRejectedByTimestamp ==
    ~AppendRefusedByTimestamp

\* C35, what the code keeps: only the greatest timestamp, i64::MAX, is refused;
\* the segment's range is half-open
C35_OnlyTheGreatestTimestampRejected ==
    AppendRefusedByTimestamp =>
        \E i \in DOMAIN wal : wal[i].id = jRes.id /\ wal[i].timestamp = I64_MAX

\* the event types and the interval ends the type index is asked for; type 2
\* is never appended
TypeQueryTypes == {1, 2}
TypeQueryTimes == {I64_MIN, 0, 1, 2, I64_MAX}

\* history: the successfully appended events of the type inside [start, end),
\* in append order
AppendedOfType(ty, start, end) ==
    SelectSeq(hist.ok_events,
              LAMBDA e : e.event_type = ty /\ e.timestamp >= start /\ e.timestamp < end)

\* C36 (type index query): get_events_by_type(ty, start, end) returns exactly
\* the successfully appended events of type ty with start <= timestamp < end
\* (empty for an unknown type or an empty interval), and returns them in
\* non-decreasing timestamp order for every sequence of appends.
C36_TypeIndexQuery ==
    pc = "idle" =>
        \A ty \in TypeQueryTypes, start \in TypeQueryTimes, end \in TypeQueryTimes :
            LET r == get_events_by_type(ty, start, end)
            IN  /\ Range(r) = Range(AppendedOfType(ty, start, end))
                /\ Len(r) = Len(AppendedOfType(ty, start, end))
                /\ NonDecreasing(r)

\* C36, what the code keeps: exactly those events, each once, in the order of
\* their appends
C36_TypeIndexQueryInAppendOrder ==
    pc = "idle" =>
        \A ty \in TypeQueryTypes, start \in TypeQueryTimes, end \in TypeQueryTimes :
            get_events_by_type(ty, start, end) = AppendedOfType(ty, start, end)

\* history: the events whose append returned an error after the WAL took them
\* (an append the WAL refuses touches nothing, C3): in the WAL, not among the
\* successful ones, and not the one still in progress
FailedAppends ==
    {wal[i] : i \in {j \in DOMAIN wal :
                        /\ \A k \in DOMAIN hist.ok_events : hist.ok_events[k].id # wal[j].id
                        /\ (pc = "idle" \/ wal[j].id # cur.id)}}

\* the ids of the events in the segments of the catalog, read from their files
IdsInFinalizedSegments ==
    UNION {{e.id : e \in Range(EventsInFile(dir[segments[i].segment_id], HEADER_SIZE))} :
              i \in DOMAIN segments}

\* C38 (a failed append leaves no trace in segments or indexes): if
\* SegmentedJournal.append(E) returns an error, E is never returned by any
\* later query and E is not contained in any segment that this journal
\* finalizes later.
C38_FailedAppendLeavesNoTrace ==
    \A e \in FailedAppends :
        /\ e.id \notin IdsInQueries
        /\ e.id \notin IdsInFinalizedSegments

\* C38, what the code keeps: no query returns the event of a failed append, and
\* an event refused for its timestamp is in no segment
C38_FailedAppendNotInQueries ==
    \A e \in FailedAppends :
        /\ e.id \notin IdsInQueries
        /\ e.timestamp = I64_MAX => e.id \notin IdsInSegments

\* C39 (segment ids are strictly increasing within one SegmentManager): in
\* every reachable state the catalog's segment ids are strictly increasing in
\* catalog order, the active writer's id, if any, is greater than every catalog
\* id, and next_segment_id is greater than every id allocated so far.
C39_SegmentIdsIncrease ==
    /\ \A i, j \in DOMAIN segments : i < j => segments[i].segment_id < segments[j].segment_id
    /\ segment_manager.active.open =>
         /\ \A i \in DOMAIN segments :
               segments[i].segment_id < segment_manager.active.header.segment_id
         /\ segment_manager.active.header.segment_id < segment_manager.next_segment_id
    /\ \A i \in DOMAIN segments : segments[i].segment_id < segment_manager.next_segment_id

\* the catalog lists segments 1 and 2, segment 3 is the active writer and 4 is
\* the next id
C39_Witness ==
    /\ Len(segments) = 2
    /\ segments[1].segment_id = 1 /\ segments[2].segment_id = 2
    /\ segment_manager.active.open
    /\ segment_manager.active.header.segment_id = 3
    /\ segment_manager.next_segment_id = 4

----------------------------------------------------------------------------
(* Two replicas of one LWWRegister (src/crdt/types.rs, src/crdt/resolver.rs)  *)

\* LWWRegister::new
LWWRegister_new(value, timestamp) == [value |-> value, timestamp |-> timestamp]

\* LWWRegister::set
LWWRegister_set(reg, value, timestamp) ==
    IF timestamp >= reg.timestamp THEN [value |-> value, timestamp |-> timestamp] ELSE reg

\* impl CRDT for LWWRegister: merge
LWWRegister_merge(reg, other) ==
    IF other.timestamp >= reg.timestamp
    THEN [value |-> other.value, timestamp |-> other.timestamp]
    ELSE reg

\* impl CRDT for LWWRegister: equals
LWWRegister_equals(reg, other) ==
    reg.value = other.value /\ reg.timestamp = other.timestamp

\* resolve_conflict(local, remote): local.merge(remote); Ok(())
resolve_conflict(local, remote) == LWWRegister_merge(local, remote)

\* the values and timestamps the replicas write
LwwValues == {1, 2}
LwwTimes == {1, 2, 3}

\* no exchange is under way
LwwSettled == ~lwwRound.active \/ (lwwRound.merged_a /\ lwwRound.merged_b)

\* replica a writes: a.set(value, timestamp)
lww_set_a ==
    /\ LwwSettled
    /\ \E value \in LwwValues, timestamp \in LwwTimes :
         lwwA' = LWWRegister_set(lwwA, value, timestamp)
    /\ lwwRound' = [lwwRound EXCEPT !.active = FALSE]
    /\ UNCHANGED lwwB

\* replica b writes: b.set(value, timestamp)
lww_set_b ==
    /\ LwwSettled
    /\ \E value \in LwwValues, timestamp \in LwwTimes :
         lwwB' = LWWRegister_set(lwwB, value, timestamp)
    /\ lwwRound' = [lwwRound EXCEPT !.active = FALSE]
    /\ UNCHANGED lwwA

\* the replicas send each other a clone of their register
lww_exchange ==
    /\ LwwSettled
    /\ lwwRound' = [active |-> TRUE, a |-> lwwA, b |-> lwwB,
                    merged_a |-> FALSE, merged_b |-> FALSE]
    /\ UNCHANGED <<lwwA, lwwB>>

\* replica a receives b's register: resolve_conflict(&mut a, &b)
lww_merge_a ==
    /\ lwwRound.active
    /\ ~lwwRound.merged_a
    /\ lwwA' = resolve_conflict(lwwA, lwwRound.b)
    /\ lwwRound' = [lwwRound EXCEPT !.merged_a = TRUE]
    /\ UNCHANGED lwwB

\* replica b receives a's register: resolve_conflict(&mut b, &a)
lww_merge_b ==
    /\ lwwRound.active
    /\ ~lwwRound.merged_b
    /\ lwwB' = resolve_conflict(lwwB, lwwRound.a)
    /\ lwwRound' = [lwwRound EXCEPT !.merged_b = TRUE]
    /\ UNCHANGED lwwA

CrdtNext ==
    \/ lww_set_a /\ UNCHANGED notCrdt
    \/ lww_set_b /\ UNCHANGED notCrdt
    \/ lww_exchange /\ UNCHANGED notCrdt
    \/ lww_merge_a /\ UNCHANGED notCrdt
    \/ lww_merge_b /\ UNCHANGED notCrdt

SpecCrdt == Init /\ [][CrdtNext]_vars

\* both replicas have merged what the other sent
LwwRoundDone == lwwRound.active /\ lwwRound.merged_a /\ lwwRound.merged_b

\* merging a register into itself, or the same register a second time, changes
\* nothing
LwwIdempotent ==
    /\ LWWRegister_merge(lwwA, lwwA) = lwwA
    /\ LWWRegister_merge(lwwB, lwwB) = lwwB
    /\ LWWRegister_merge(LWWRegister_merge(lwwA, lwwB), lwwB) = LWWRegister_merge(lwwA, lwwB)
    /\ LWWRegister_merge(LWWRegister_merge(lwwB, lwwA), lwwA) = LWWRegister_merge(lwwB, lwwA)

\* C40 (LWWRegister merge converges): for any two registers a and b, merging b
\* into a and merging a into b leave both replicas equal (same value and
\* timestamp), for every combination of values and timestamps including equal
\* timestamps; merge is also idempotent.
C40_LWWMergeConverges ==
    /\ LwwRoundDone => LWWRegister_equals(lwwA, lwwB)
    /\ LwwIdempotent

\* C40, what the code keeps: the replicas converge when their timestamps differ
\* or their values are equal, and merge is idempotent
C40_LWWMergeConvergesWithoutTies ==
    /\ (LwwRoundDone
        /\ (lwwRound.a.timestamp # lwwRound.b.timestamp \/ lwwRound.a.value = lwwRound.b.value))
           => LWWRegister_equals(lwwA, lwwB)
    /\ LwwIdempotent

====
